---------------------------- MODULE Spec2Model ----------------------------
(***************************************************************************)
(* Model of the Pinterest account-creation automation.                     *)
(*                                                                         *)
(* Part 1 (specification Spec): the sequential orchestrators               *)
(*   BatchAccountCreator.create_accounts  (batch_account_creator.py) and   *)
(*   PinterestAutomation._create_accounts (pinterest_automation.py),       *)
(* driving PinterestAccountCreator.create_account step by step.            *)
(*                                                                         *)
(* Part 2 (specification SpecThreaded): AccountManager (account_manager.py)*)
(* with its creation workers, verification workers and the main thread.    *)
(*                                                                         *)
(* Data abstraction.  An e-mail address is a natural number: 0 is the      *)
(* empty/missing address, k > 0 names an address handed out by the         *)
(* disposable-mailbox service; the service never hands out an address      *)
(* twice, and a new address is named by the least number that no record    *)
(* still in use carries.  A password is modelled by (a lower bound of) its *)
(* length.  A browser session is "none" (never launched), "open" or        *)
(* "closed".  The failed_attempts list of the batch report is not          *)
(* modelled.                                                               *)
(***************************************************************************)
EXTENDS Integers, Sequences, FiniteSets, TLC

(***************************************************************************)
(* Bounds of the model (not program constants).                            *)
(***************************************************************************)
\* largest num_accounts of a sequential run
MaxAccounts == 2

\* largest max_retries of the orchestrator's while loop
MaxRetries == 2

\* largest min_delay / max_delay
MaxDelay == 1

\* most browsers that setup_driver retries may leave behind in one run
MaxLeaked == 1

\* largest num_creation_threads
MaxCreators == 1

\* largest num_verification_threads
MaxVerifiers == 1

(***************************************************************************)
(* Program constants.                                                      *)
(***************************************************************************)
\* create_account(self, user_info=None, max_retries=3); no caller overrides it
CreateMaxRetries == 3

\* setup_driver: max_retries = 3 launches of the browser
SetupMaxRetries == 3

\* password_length = random.randint(12, 16): a generated password has at
\* least PasswordMinLen characters
PasswordMinLen == 12

VARIABLES
    \* ---- configuration of the sequential orchestrator (fixed by Init)
    mode,                \* "batch" | "automation"
    num_accounts,        \* config["num_accounts"]
    max_retries,         \* config["max_retries"]
    min_delay,           \* config["min_delay"]
    max_delay,           \* config["max_delay"]
    \* ---- orchestrator loop state
    pc,                  \* position in create_accounts
    abortAt,             \* where an uncaught exception left the run, or "none"
    i,                   \* for i in range(num_accounts)
    retries,
    account_created,
    success,             \* stats["success"]
    failed,              \* stats["failed"]
    sleeps,              \* number of inter-account time.sleep(delay) calls
    delay,               \* the delay of the latest of them; -1 before the first
    successful_accounts, \* list of records collected by the run
    outputFile,          \* account records held by the output file
    \* ---- one PinterestAccountCreator and its create_account call
    user_info,           \* [email, password]
    driver,              \* creator.driver: "none" | "open" | "closed"
    email_verifier,      \* creator.email_verifier is set
    temp_mail,           \* the verifier's TempMail session: "none" | "open"
    attempt,             \* for attempt in range(max_retries)
    cpc,                 \* next step of the current attempt
    stepsRun,            \* steps that succeeded in the current attempt
    ret,                 \* value returned by create_account
    \* ---- environment and resources
    leaked,              \* running browsers that no object refers to any more
    verifier_driver,     \* PinterestAutomation.email_verifier.driver
    \* ---- history
    createdEmails,       \* addresses for which check_account_created was True
    \* ---- AccountManager (threaded orchestrator)
    num_creation_threads,
    num_verification_threads,
    is_running,          \* self.is_running
    main_pc,             \* position of the thread running main() / start()
    creator_thread,      \* creator id -> position of the create_account task
    creator_session,     \* creator id -> its browser: "none" | "open" | "closed"
    active_creators,     \* keys of self.active_creators
    verification_queue,  \* creator ids of the accounts waiting for verification
    verifier_thread,     \* verifier id -> position of the verify_account task
    verifier_session,    \* verifier id -> its browser: "none" | "open" | "closed"
    verifier_temp_mail,  \* verifier id -> temp_mail of its EmailVerifier;
                         \* "unset" while the worker has no EmailVerifier
    active_verifiers,    \* keys of self.active_verifiers
    polls_after_stop,    \* verifier id -> queue.Empty timeouts taken while
                         \* is_running was already False
    iter_size,           \* size of the dictionary when its iteration began
    iter_seen,           \* keys the iteration of start()'s finally has visited
    \* ---- AccountManager: saving a verified account
    file_lock,           \* self.file_lock: <<>> if free, else <<holder>>
    save_pc,             \* verifier id -> position in lines 132-142
    json_file,           \* pinterest_accounts.json: the records appended, in order
    txt_file,            \* pinterest_accounts.txt: the records appended, in order
    \* ---- ProxyHandler / ProxyManager and the proxy of the current attempt
    use_proxy,           \* config["use_proxy"]
    proxies,             \* self.proxies: the pool, a sequence of proxy names > 0
    current_index,       \* self.current_index: the rotation cursor
    proxy,               \* the caller's local variable proxy; 0 is None
    next_returns,        \* what the calls of get_next_proxy returned, in order
    raw_proxies,         \* the entries of the proxy file / API reply, as read
    load_pc,             \* where ProxyManager.load_proxies_from_file stands
    \* ---- CaptchaSolver: one call of solve_recaptcha / solve_image_captcha
    api_key,             \* self.api_key is set
    service,             \* self.service
    captcha_kind,        \* "recaptcha" (solve_recaptcha) or "image"
    manual_driver,       \* the driver argument: "none", "headless", "visible"
    navigator_webdriver, \* what navigator.webdriver is in the page of that
                         \* driver: "undefined", "false" or "true"
    cap_pc,              \* where the call stands
    task,                \* the challenge at the service: "none", "Polling",
                         \* "Solved", "Failed", "TimedOut", "Rejected", "Raised"
    manual,              \* the manual attempt: "none", "refused", "error",
                         \* "waiting", "solved", "timeout"
    polls,               \* requests for the result sent to the service
    manual_polls,        \* looks at the page during the manual wait
    solution,            \* the value returned: 1 a solution, 0 None
    last_reply,          \* the service's reply to the latest poll
    \* ---- TempMail: one call of create_email, get_inbox or wait_for_message
    tm_entry,            \* the method that was called
    session_id,          \* self.session_id; 0 is None
    tm_email,            \* self.email; 0 is None
    inbox,               \* self.inbox
    ce_pc,               \* create_email: "idle", "try", "returned", "raised"
    ce_max_retries,      \* its parameter max_retries
    ce_attempt,          \* its loop variable attempt = requests sent so far
    ce_backoffs,         \* the time.sleep() arguments of this call, in order
    gi_pc,               \* get_inbox: "idle", "call", "try", "recreate",
                         \* "returned", "raised"
    gi_max_retries,      \* its parameter max_retries
    gi_attempt,          \* its loop variable attempt
    gi_backoffs,         \* the time.sleep() arguments of this call, in order
    gi_recreated,        \* create_email calls made by this get_inbox call
    wm_pc,               \* wait_for_message: "idle", "call", "loop", "polling",
                         \* "returned", "raised"
    subject_keyword,     \* its parameters
    timeout,
    check_interval,
    elapsed,             \* its local variable elapsed
    wm_polls,            \* get_inbox calls made by this wait_for_message call
    wm_failed_polls,     \* those of them that raised
    wm_result,           \* the value returned: a message, or NoMessage
    \* ---- link extraction: TempMail.extract_links and the selection in
    \* ---- EmailVerifier.verify_with_temp_mail
    le_entry,            \* the method that was called
    le_pc,               \* where the call stands
    message,             \* the message: sender, snippet, body_text
    links,               \* what extract_links returned
    verification_link,   \* the local variable verification_link; NoLink is None
    \* ---- IMAP verification: EmailVerifier.verify_gmail_account,
    \* ---- verify_yahoo_account, verify_outlook_account, verify_email
    ve_entry,            \* the method that was called
    im_pc,               \* where the IMAP verification stands
    im_host,             \* the IMAP server of the provider
    im_max_attempts,     \* the parameter max_attempts
    im_delay,            \* the parameter delay
    im_attempts,         \* the local variable attempts
    im_searches,         \* history: the calls of mail.search
    im_sleeps,           \* history: the arguments of time.sleep, in order
    im_link,             \* TRUE when the local verification_link is set
    im_seen_link,        \* history: a fetched message held a verification link
    im_opened,           \* history: open_verification_link was called
    im_result,           \* what the method returned: "none", "True", "False"
    imap_connections,    \* history: the calls of imaplib.IMAP4_SSL
    \* ---- EmailVerifier.verify_email and the verification step of
    \* ---- PinterestAutomation._create_accounts
    email_verification,  \* config["user_data"]["email_verification"]
    email_passwords,     \* config["user_data"]["email_passwords"], by domain
    ve_pc,               \* where the call of verify_email stands
    ve_domain,           \* the domain of the argument email
    ve_password,         \* the argument password: "empty" or "set"
    ve_result,           \* what verify_email returned: "none", "True", "False"
    pa_pc,               \* where _create_accounts stands
    pa_i,                \* the loop variable i
    pa_retries,          \* the local variable retries
    pa_account_created,  \* the local variable account_created
    pa_accounts,         \* stats["accounts"], with the cause of "verified"
    pa_failed,           \* stats["failed"]
    pa_verified,         \* stats["verified"]
    \* ---- the success tests: PinterestAccountCreator.check_account_created
    \* ---- and EmailVerifier.open_verification_link
    pg_entry,            \* the method that was called
    pg_pc,               \* where the call stands
    current_url,         \* self.driver.current_url, as a sequence of pieces
    success_element,     \* TRUE when the page shows a success message
    pg_result,           \* what the method returned: "none", "True", "False"
    \* ---- one account of an orchestrator, attempt by attempt: the retry
    \* ---- loop around PinterestAccountCreator.create_account
    use_temp_mail,       \* the creator's self.use_temp_mail
    oc_pc,               \* where the orchestrator stands
    oc_retries,          \* its local variable retries
    oc_account_created,  \* its local variable account_created
    ca_driver,           \* the creator's browser: "none", "open", "crashed",
                         \* "closed"
    browser_sessions,    \* history: browsers started for this account
    last_browser,        \* history: the state the previous creator's
                         \* browser had when the creator was closed
    ca_pc,               \* where create_account stands
    ca_attempt,          \* its loop variable attempt
    ca_ret,              \* what it returned: "pending", "True", "False",
                         \* "None"
    ca_backoffs,         \* history: the time.sleep() arguments of this call
    ca_steps,            \* history: what the current attempt has done
    ca_email_verifier,   \* self.email_verifier is set
    ca_session,          \* the session of its TempMail: "none" or "open"
    sessions_created,    \* history: mailbox sessions created
    sessions_killed,     \* history: kill-session requests sent
    form_fills,          \* history: signup forms filled in and sent
    verify_calls         \* history: calls of EmailVerifier.verify_email

cfgVars == <<mode, num_accounts, max_retries, min_delay, max_delay>>

loopVars == <<pc, abortAt, i, retries, account_created, success, failed, sleeps, delay,
              successful_accounts, outputFile>>

creatorVars == <<user_info, driver, email_verifier, temp_mail, attempt, cpc,
                 stepsRun, ret>>

envVars == <<leaked, verifier_driver>>

histVars == <<createdEmails>>

managerVars == <<num_creation_threads, num_verification_threads, is_running,
                 main_pc, creator_thread, creator_session, active_creators,
                 verification_queue, verifier_thread, verifier_session, verifier_temp_mail,
                 active_verifiers, polls_after_stop, iter_size, iter_seen>>

fileVars == <<file_lock, save_pc, json_file, txt_file>>

proxyVars == <<use_proxy, proxies, current_index, proxy, next_returns,
               raw_proxies, load_pc>>

mailVars == <<tm_entry, session_id, tm_email, inbox, ce_pc, ce_max_retries,
              ce_attempt, ce_backoffs, gi_pc, gi_max_retries, gi_attempt,
              gi_backoffs, gi_recreated, wm_pc, subject_keyword, timeout,
              check_interval, elapsed, wm_polls, wm_failed_polls, wm_result>>

linkVars == <<le_entry, le_pc, message, links, verification_link>>

\* The parts that have a specification of their own, after the CAPTCHA part.
imapVars == <<ve_entry, im_pc, im_host, im_max_attempts, im_delay, im_attempts,
              im_searches, im_sleeps, im_link, im_seen_link, im_opened,
              im_result, imap_connections>>

verifyVars == <<email_verification, email_passwords, ve_pc, ve_domain,
                ve_password, ve_result, pa_pc, pa_i, pa_retries,
                pa_account_created, pa_accounts, pa_failed, pa_verified>>

pageVars == <<pg_entry, pg_pc, current_url, success_element, pg_result>>

\* The parts after the verification part.
createVars == <<use_temp_mail, oc_pc, oc_retries, oc_account_created,
                ca_driver, browser_sessions, last_browser, ca_pc, ca_attempt,
                ca_ret, ca_backoffs, ca_steps, ca_email_verifier, ca_session,
                sessions_created, sessions_killed, form_fills, verify_calls>>

tailVars == <<pageVars, createVars>>

partVars == <<mailVars, linkVars, imapVars, verifyVars, tailVars>>

captchaVars == <<api_key, service, captcha_kind, manual_driver,
                 navigator_webdriver, cap_pc, task,
                 manual, polls, manual_polls, solution, last_reply>>

vars == <<cfgVars, loopVars, creatorVars, envVars, histVars, managerVars,
          fileVars, proxyVars, captchaVars, partVars>>

-----------------------------------------------------------------------------
(***************************************************************************)
(* Helpers.                                                                *)
(***************************************************************************)
IsPrefix(s, t) ==
    /\ Len(s) <= Len(t)
    /\ \A k \in 1..Len(s) : s[k] = t[k]

Range(s) == { s[k] : k \in 1..Len(s) }

\* The order in which create_account calls its steps inside one attempt.
StepOrder == <<"mail", "form", "next", "gender", "location", "interests", "check">>

NoUser == [email |-> 0, password |-> 0]

NoReturn == [kind |-> "pending"]

\* A record left in the output file by an earlier run.
OldRecord == [run |-> 0, email |-> 1, password |-> PasswordMinLen]


-----------------------------------------------------------------------------
(***************************************************************************)
(* PinterestAccountCreator.setup_driver / EmailVerifier.setup_driver.      *)
(***************************************************************************)
LaunchOutcomes == {"ok", "launchFail", "configFail"}

\* One run of setup_driver's retry loop.  o[a] is what the a-th launch does:
\*   "launchFail"  uc.Chrome(...) raises, no browser is started;
\*   "configFail"  the browser starts and is assigned to self.driver, then
\*                 set_window_size / execute_cdp_cmd raises;
\*   "ok"          the browser starts and is configured: return True.
\* A later launch overwrites self.driver without quitting the browser it
\* held, which is counted in lost.  After SetupMaxRetries failures the
\* method returns False and self.driver keeps what was last assigned.
RECURSIVE SetupRun(_, _, _, _)
SetupRun(o, a, drv, lost) ==
    IF a > SetupMaxRetries
    THEN [ok |-> FALSE, driver |-> drv, leaked |-> lost]
    ELSE IF o[a] = "launchFail"
         THEN SetupRun(o, a + 1, drv, lost)
         ELSE LET l == lost + (IF drv = "open" THEN 1 ELSE 0)
              IN  IF o[a] = "ok"
                  THEN [ok |-> TRUE, driver |-> "open", leaked |-> l]
                  ELSE SetupRun(o, a + 1, "open", l)

\* The results setup_driver can have.
setup_driver ==
    { SetupRun(o, 1, "none", 0) : o \in [1..SetupMaxRetries -> LaunchOutcomes] }

\* Browser sessions currently running.
OpenSessions ==
    leaked + (IF driver = "open" THEN 1 ELSE 0)
           + (IF verifier_driver = "open" THEN 1 ELSE 0)

\* generate_random_user with use_temp_mail: a profile without an address and
\* with a password of at least PasswordMinLen random characters.
generate_random_user == [email |-> 0, password |-> PasswordMinLen]

\* The name of the next address the mailbox service hands out.
FreshAddress ==
    LET used == { successful_accounts[k].email : k \in 1..Len(successful_accounts) }
                  \cup {user_info.email}
    IN  CHOOSE k \in 1..(Cardinality(used) + 1) :
            /\ k \notin used
            /\ \A j \in 1..(k - 1) : j \in used

-----------------------------------------------------------------------------
(***************************************************************************)
(* Initial states: a configuration and an output file possibly left by an  *)
(* earlier run.                                                            *)
(***************************************************************************)
\* ProxyHandler.__init__ / ProxyManager.__init__ with the pool they loaded.
ProxyHandler_init(pool) ==
    /\ proxies = pool
    /\ current_index = 0
    /\ next_returns = <<>>
    /\ raw_proxies = <<>>
    /\ load_pc = "loaded"

\* No attempt-by-attempt run of an account is in progress.
NoCreate ==
    /\ use_temp_mail = TRUE
    /\ oc_pc = "idle"
    /\ oc_retries = 0
    /\ oc_account_created = FALSE
    /\ ca_driver = "none"
    /\ browser_sessions = 0
    /\ last_browser = "none"
    /\ ca_pc = "idle"
    /\ ca_attempt = 0
    /\ ca_ret = "pending"
    /\ ca_backoffs = <<>>
    /\ ca_steps = <<>>
    /\ ca_email_verifier = FALSE
    /\ ca_session = "none"
    /\ sessions_created = 0
    /\ sessions_killed = 0
    /\ form_fills = 0
    /\ verify_calls = 0

\* No success test is running.
NoPages ==
    /\ pg_entry = "none"
    /\ pg_pc = "idle"
    /\ current_url = <<>>
    /\ success_element = FALSE
    /\ pg_result = "none"

\* The domains that have an entry in email_passwords, or none.
RealDomains == {"gmail.com", "yahoo.com", "outlook.com"}

\* PinterestAutomation is not running and verify_email is not called.
NoVerify ==
    /\ email_verification = FALSE
    /\ email_passwords = [d \in RealDomains |-> "missing"]
    /\ ve_pc = "idle"
    /\ ve_domain = "none"
    /\ ve_password = "none"
    /\ ve_result = "none"
    /\ pa_pc = "idle"
    /\ pa_i = 0
    /\ pa_retries = 0
    /\ pa_account_created = FALSE
    /\ pa_accounts = <<>>
    /\ pa_failed = 0
    /\ pa_verified = 0

\* No IMAP verification is running.
NoImap ==
    /\ ve_entry = "none"
    /\ im_pc = "idle"
    /\ im_host = "none"
    /\ im_max_attempts = 0
    /\ im_delay = 0
    /\ im_attempts = 0
    /\ im_searches = 0
    /\ im_sleeps = <<>>
    /\ im_link = FALSE
    /\ im_seen_link = FALSE
    /\ im_opened = FALSE
    /\ im_result = "none"
    /\ imap_connections = 0

\* No URL: verification_link = None.
NoLink == [path |-> "none", enc |-> FALSE, extra |-> FALSE, code |-> 0, uid |-> 0]

\* A field that the message does not have.
NoBody == [direct |-> "absent", dcode |-> 0, target |-> "none",
           code_token |-> FALSE, uid_token |-> FALSE]

\* No link is being extracted.
NoLinks ==
    /\ le_entry = "none"
    /\ le_pc = "idle"
    /\ message = [from_pinterest |-> FALSE, snippet |-> NoBody, body_text |-> NoBody]
    /\ links = <<>>
    /\ verification_link = NoLink

\* wait_for_message returned None, or has not returned.
NoMessage == [subject |-> <<>>, id |-> 0]

\* No TempMail method is running.
NoMail ==
    /\ tm_entry = "none"
    /\ session_id = 0
    /\ tm_email = 0
    /\ inbox = <<>>
    /\ ce_pc = "idle"
    /\ ce_max_retries = 0
    /\ ce_attempt = 0
    /\ ce_backoffs = <<>>
    /\ gi_pc = "idle"
    /\ gi_max_retries = 0
    /\ gi_attempt = 0
    /\ gi_backoffs = <<>>
    /\ gi_recreated = 0
    /\ wm_pc = "idle"
    /\ subject_keyword = <<>>
    /\ timeout = 0
    /\ check_interval = 0
    /\ elapsed = 0
    /\ wm_polls = 0
    /\ wm_failed_polls = 0
    /\ wm_result = NoMessage

\* The reply record before any poll.
NoReply == [status_code |-> 0, kind |-> "none"]

\* No CAPTCHA is being solved.
NoCaptcha ==
    /\ api_key = FALSE
    /\ service = "2captcha"
    /\ captcha_kind = "recaptcha"
    /\ manual_driver = "none"
    /\ navigator_webdriver = "undefined"
    /\ cap_pc = "idle"
    /\ task = "none"
    /\ manual = "none"
    /\ polls = 0
    /\ manual_polls = 0
    /\ solution = 0
    /\ last_reply = NoReply

\* A run that is configured without proxies.
NoProxies ==
    /\ use_proxy = FALSE
    /\ ProxyHandler_init(<<>>)

\* No orchestrator loop has run and no PinterestAccountCreator exists.
NothingStarted ==
    /\ proxy = 0
    /\ pc = "setup"
    /\ abortAt = "none"
    /\ i = 0
    /\ retries = 0
    /\ account_created = FALSE
    /\ success = 0
    /\ failed = 0
    /\ sleeps = 0
    /\ delay = -1
    /\ successful_accounts = <<>>
    /\ user_info = NoUser
    /\ driver = "none"
    /\ email_verifier = FALSE
    /\ temp_mail = "none"
    /\ attempt = 0
    /\ cpc = "idle"
    /\ stepsRun = <<>>
    /\ ret = NoReturn
    /\ leaked = 0
    /\ verifier_driver = "none"
    /\ createdEmails = {}

\* AccountManager.__init__ for the given numbers of threads: empty queue,
\* empty tracking dictionaries, is_running = True, no task submitted.
AccountManager_init(nc, nv) ==
    /\ num_creation_threads = nc
    /\ num_verification_threads = nv
    /\ is_running = TRUE
    /\ creator_thread = [c \in 0..(nc - 1) |-> "idle"]
    /\ creator_session = [c \in 0..(nc - 1) |-> "none"]
    /\ active_creators = {}
    /\ verification_queue = <<>>
    /\ verifier_thread = [v \in 0..(nv - 1) |-> "idle"]
    /\ verifier_session = [v \in 0..(nv - 1) |-> "none"]
    /\ verifier_temp_mail = [v \in 0..(nv - 1) |-> "unset"]
    /\ active_verifiers = {}
    /\ polls_after_stop = [v \in 0..(nv - 1) |-> 0]
    /\ iter_size = 0
    /\ iter_seen = {}
    /\ file_lock = <<>>
    /\ save_pc = [v \in 0..(nv - 1) |-> "idle"]
    /\ json_file = <<>>
    /\ txt_file = <<>>

\* The sequential orchestrators: batch_account_creator.py / pinterest_automation.py
\* started with some configuration; no AccountManager is in use.
Init ==
    /\ mode \in {"batch", "automation"}
    /\ num_accounts \in 0..MaxAccounts
    /\ max_retries \in 0..MaxRetries
    /\ min_delay \in 0..MaxDelay
    /\ max_delay \in 0..MaxDelay
    /\ outputFile \in {<<>>, <<OldRecord>>}
    /\ NothingStarted
    /\ NoProxies
    /\ NoCaptcha
    /\ NoMail
    /\ NoLinks
    /\ NoImap
    /\ NoVerify
    /\ NoPages
    /\ NoCreate
    /\ AccountManager_init(0, 0)
    /\ main_pc = "none"

-----------------------------------------------------------------------------
(***************************************************************************)
(* Construction of the orchestrator.                                       *)
(***************************************************************************)
\* BatchAccountCreator.__init__: no browser is started.
BatchAccountCreator_init ==
    /\ pc = "setup"
    /\ mode = "batch"
    /\ pc' = "for"
    /\ UNCHANGED <<cfgVars, managerVars, fileVars, proxyVars, captchaVars, partVars, abortAt, i, retries, account_created,
                   success, failed,
                   sleeps, delay, successful_accounts, outputFile,
                   creatorVars, envVars, histVars>>

\* PinterestAutomation.setup_components: EmailVerifier(headless=...) starts a
\* browser of its own; EmailVerifier.setup_driver re-raises a failure of the
\* launch or of the configuration of the launched browser, which ends the
\* program before any account is attempted.
setup_components ==
    /\ pc = "setup"
    /\ mode = "automation"
    /\ \E o \in LaunchOutcomes :
         /\ verifier_driver' = IF o = "launchFail" THEN "none" ELSE "open"
         /\ IF o = "ok"
            THEN /\ pc' = "for"
                 /\ UNCHANGED abortAt
            ELSE /\ pc' = "aborted"
                 /\ abortAt' = "setup"
    /\ UNCHANGED <<cfgVars, managerVars, fileVars, proxyVars, captchaVars, partVars, i, retries, account_created,
                   success, failed, sleeps, delay,
                   successful_accounts, outputFile,
                   creatorVars, leaked, histVars>>

-----------------------------------------------------------------------------
(***************************************************************************)
(* The loop of create_accounts / _create_accounts.                         *)
(***************************************************************************)
\* for i in range(num_accounts): ... account_created = False; retries = 0
for_next ==
    /\ pc = "for"
    /\ i < num_accounts
    /\ account_created' = FALSE
    /\ retries' = 0
    /\ pc' = "while"
    /\ UNCHANGED <<cfgVars, managerVars, fileVars, proxyVars, captchaVars, partVars, abortAt, i, success, failed, sleeps, delay,
                   successful_accounts, outputFile,
                   creatorVars, envVars, histVars>>

\* while not account_created and retries < max_retries:
\*     user_info = user_generator.generate_user()
\*     creator = PinterestAccountCreator(...)
\*     ... creator.create_account(user_info=user_info)
\* generate_user builds a headless PinterestAccountCreator of its own, takes a
\* random profile from it and closes it; the constructor of each creator runs
\* setup_driver.
start_attempt ==
    /\ pc = "while"
    /\ ~account_created
    /\ retries < max_retries
    /\ \E g \in setup_driver, c \in setup_driver :
         /\ leaked + g.leaked + c.leaked <= MaxLeaked
         /\ leaked' = leaked + g.leaked + c.leaked
         /\ driver' = c.driver
    /\ user_info' = generate_random_user
    /\ email_verifier' = FALSE
    /\ temp_mail' = "none"
    /\ attempt' = 0
    /\ cpc' = "mail"
    /\ stepsRun' = <<>>
    /\ ret' = NoReturn
    /\ pc' = "create"
    /\ UNCHANGED <<cfgVars, managerVars, fileVars, proxyVars, captchaVars, partVars, abortAt, i, retries, account_created,
                   success, failed,
                   sleeps, delay, successful_accounts, outputFile,
                   verifier_driver, histVars>>

-----------------------------------------------------------------------------
(***************************************************************************)
(* PinterestAccountCreator.create_account, one action per step.            *)
(***************************************************************************)
FailReturn == [kind |-> "pair", success |-> FALSE, result |-> NoUser]

\* `continue` after a failed step.  The finally clause runs; on the last
\* attempt it closes the email verifier, the for loop is exhausted and the
\* function ends without a return statement, i.e. returns None.  ev and tm
\* are the values email_verifier and temp_mail have when the step ends.
AttemptContinue(ev, tm) ==
    IF attempt < CreateMaxRetries - 1
    THEN /\ attempt' = attempt + 1
         /\ cpc' = "mail"
         /\ stepsRun' = <<>>
         /\ email_verifier' = ev
         /\ temp_mail' = tm
         /\ UNCHANGED <<ret, pc>>
    ELSE /\ email_verifier' = FALSE
         /\ temp_mail' = "none"
         /\ ret' = [kind |-> "none"]
         /\ cpc' = "end"
         /\ pc' = "returned"
         /\ UNCHANGED <<attempt, stepsRun>>

\* except Exception: sleep 2 ** attempt and continue, or on the last attempt
\* return (False, error_msg); the finally clause as above.
AttemptRaise(ev, tm) ==
    IF attempt < CreateMaxRetries - 1
    THEN /\ attempt' = attempt + 1
         /\ cpc' = "mail"
         /\ stepsRun' = <<>>
         /\ email_verifier' = ev
         /\ temp_mail' = tm
         /\ UNCHANGED <<ret, pc>>
    ELSE /\ email_verifier' = FALSE
         /\ temp_mail' = "none"
         /\ ret' = FailReturn
         /\ cpc' = "end"
         /\ pc' = "returned"
         /\ UNCHANGED <<attempt, stepsRun>>

\* A step that returned o: "ok" moves on to step nxt, "fail" is a falsy
\* return value, "raise" an exception that leaves the step.
StepOutcome(name, nxt, o) ==
    CASE o = "ok" ->
           /\ stepsRun' = Append(stepsRun, name)
           /\ cpc' = nxt
           /\ UNCHANGED <<attempt, ret, pc, email_verifier, temp_mail>>
      [] o = "fail" -> AttemptContinue(email_verifier, temp_mail)
      [] o = "raise" -> AttemptRaise(email_verifier, temp_mail)

StepFrame ==
    UNCHANGED <<cfgVars, managerVars, fileVars, proxyVars, captchaVars, partVars, abortAt, i, retries, account_created,
                   success, failed,
                sleeps, delay, successful_accounts, outputFile,
                driver, leaked, verifier_driver>>

\* Mutant of generate_temp_mail: the service hands out one and the same
\* address every time.
generate_temp_mail_same_address ==
    /\ pc = "create"
    /\ cpc = "mail"
    /\ \E o \in {"address", "empty", "error"} :
         IF o # "error"
         THEN /\ user_info' = [user_info EXCEPT
                                  !.email = IF o = "address" THEN 1 ELSE 0]
              /\ email_verifier' = TRUE
              /\ temp_mail' = "open"
              /\ stepsRun' = <<"mail">>
              /\ cpc' = "form"
              /\ UNCHANGED <<attempt, ret, pc>>
         ELSE /\ AttemptRaise(TRUE, "open")
              /\ UNCHANGED user_info
    /\ UNCHANGED createdEmails
    /\ StepFrame

\* if self.use_temp_mail: create the EmailVerifier on the creator's driver if
\* there is none, then email = self.email_verifier.generate_temp_mail().
\* generate_temp_mail replaces the verifier's TempMail by a new one and asks
\* the service for an address; when TempMail.create_email gives up it raises,
\* and an answer of the service that carries no address yields None.
generate_temp_mail ==
    /\ pc = "create"
    /\ cpc = "mail"
    /\ \E o \in {"address", "empty", "error"} :
         IF o # "error"
         THEN /\ user_info' = [user_info EXCEPT
                                  !.email = IF o = "address" THEN FreshAddress ELSE 0]
              /\ email_verifier' = TRUE
              /\ temp_mail' = "open"
              /\ stepsRun' = <<"mail">>
              /\ cpc' = "form"
              /\ UNCHANGED <<attempt, ret, pc>>
         ELSE /\ AttemptRaise(TRUE, "open")
              /\ UNCHANGED user_info
    /\ UNCHANGED createdEmails
    /\ StepFrame

\* Step 1: if not self.fill_signup_form(user_info): continue
\* fill_signup_form catches every exception and returns False; without a
\* running browser self.driver.get raises inside it, and without an address
\* email_field.send_keys(None) does.
fill_signup_form ==
    /\ pc = "create"
    /\ cpc = "form"
    /\ \E o \in (IF driver = "open" /\ user_info.email # 0
                THEN {"ok", "fail"} ELSE {"fail"}) :
         StepOutcome("form", "next", o)
    /\ UNCHANGED <<user_info, createdEmails>>
    /\ StepFrame

\* next_button = self.wait_for_element(...); if not next_button or not
\* self.click_element(next_button): continue.  wait_for_element catches only
\* TimeoutException.
click_next ==
    /\ pc = "create"
    /\ cpc = "next"
    /\ \E o \in {"ok", "fail", "raise"} : StepOutcome("next", "gender", o)
    /\ UNCHANGED <<user_info, createdEmails>>
    /\ StepFrame

\* Mutant of select_gender: the `continue` after a failed gender selection is
\* missing, so the attempt goes on to the location step.
select_gender_no_continue ==
    /\ pc = "create"
    /\ cpc = "gender"
    /\ \E o \in {"ok", "fail"} :
         IF o = "ok"
         THEN StepOutcome("gender", "location", "ok")
         ELSE /\ cpc' = "location"
              /\ UNCHANGED <<stepsRun, attempt, ret, pc, email_verifier, temp_mail>>
    /\ UNCHANGED <<user_info, createdEmails>>
    /\ StepFrame

\* if not self.select_gender(): continue
select_gender ==
    /\ pc = "create"
    /\ cpc = "gender"
    /\ \E o \in {"ok", "fail"} : StepOutcome("gender", "location", o)
    /\ UNCHANGED <<user_info, createdEmails>>
    /\ StepFrame

\* click next to accept the prefilled location
confirm_location ==
    /\ pc = "create"
    /\ cpc = "location"
    /\ \E o \in {"ok", "fail", "raise"} : StepOutcome("location", "interests", o)
    /\ UNCHANGED <<user_info, createdEmails>>
    /\ StepFrame

\* Step 2: if not self.select_interests(): continue
select_interests ==
    /\ pc = "create"
    /\ cpc = "interests"
    /\ \E o \in {"ok", "fail"} : StepOutcome("interests", "check", o)
    /\ UNCHANGED <<user_info, createdEmails>>
    /\ StepFrame

\* Mutant of check_account_created: the `continue` after a failed check is
\* missing, so the attempt returns (True, user_info) all the same.
check_account_created_no_continue ==
    /\ pc = "create"
    /\ cpc = "check"
    /\ \E o \in {"ok", "fail"} :
         /\ stepsRun' = IF o = "ok" THEN Append(stepsRun, "check") ELSE stepsRun
         /\ createdEmails' = IF o = "ok" THEN createdEmails \cup {user_info.email}
                                         ELSE createdEmails
    /\ ret' = [kind |-> "pair", success |-> TRUE, result |-> user_info]
    /\ cpc' = "end"
    /\ pc' = "returned"
    /\ IF attempt = CreateMaxRetries - 1
       THEN email_verifier' = FALSE /\ temp_mail' = "none"
       ELSE UNCHANGED <<email_verifier, temp_mail>>
    /\ UNCHANGED <<attempt, user_info>>
    /\ StepFrame

\* Step 3: if not self.check_account_created(): continue
\*         return True, user_info
\* The finally clause closes the email verifier only on the last attempt.
check_account_created ==
    /\ pc = "create"
    /\ cpc = "check"
    /\ \E o \in {"ok", "fail"} :
         IF o = "ok"
         THEN /\ stepsRun' = Append(stepsRun, "check")
              /\ createdEmails' = createdEmails \cup {user_info.email}
              /\ ret' = [kind |-> "pair", success |-> TRUE, result |-> user_info]
              /\ cpc' = "end"
              /\ pc' = "returned"
              /\ IF attempt = CreateMaxRetries - 1
                 THEN email_verifier' = FALSE /\ temp_mail' = "none"
                 ELSE UNCHANGED <<email_verifier, temp_mail>>
              /\ UNCHANGED attempt
         ELSE /\ AttemptContinue(email_verifier, temp_mail)
              /\ UNCHANGED createdEmails
    /\ UNCHANGED user_info
    /\ StepFrame

-----------------------------------------------------------------------------
(***************************************************************************)
(* Back in the orchestrator.                                               *)
(***************************************************************************)
AccountRecord(u) == [run |-> 1, email |-> u.email, password |-> u.password]

\* Mutant of handle_result: no `except Exception` around the call, so the
\* TypeError of unpacking None leaves create_accounts (the finally clause
\* still closes the creator).
handle_result_no_except ==
    /\ pc = "returned"
    /\ IF ret.kind = "pair"
       THEN /\ pc' = "while"
            /\ UNCHANGED abortAt
            /\ IF ret.success
               THEN /\ successful_accounts' =
                           Append(successful_accounts, AccountRecord(ret.result))
                    /\ account_created' = TRUE
                    /\ success' = success + 1
                    /\ UNCHANGED retries
               ELSE /\ retries' = retries + 1
                    /\ UNCHANGED <<successful_accounts, account_created, success>>
       ELSE /\ pc' = "aborted"
            /\ abortAt' = "create"
            /\ UNCHANGED <<successful_accounts, account_created, success, retries>>
    /\ driver' = IF driver = "open" THEN "closed" ELSE driver
    /\ email_verifier' = FALSE
    /\ UNCHANGED <<cfgVars, managerVars, fileVars, proxyVars, captchaVars, partVars, i, failed, sleeps, delay, outputFile,
                   user_info, temp_mail, attempt, cpc, stepsRun, ret,
                   leaked, verifier_driver, createdEmails>>

\* try: success, result = creator.create_account(user_info=user_info)
\*      if success: ... else: ...
\* except Exception: ...        (unpacking None raises TypeError)
\* finally: creator.close()
\* PinterestAutomation may call email_verifier.verify_email before it appends
\* the record; that call only sets the record's "verified" flag and
\* stats["verified"], neither of which is modelled.
handle_result ==
    /\ pc = "returned"
    /\ IF ret.kind = "pair"
       THEN IF ret.success
            THEN /\ successful_accounts' =
                        Append(successful_accounts, AccountRecord(ret.result))
                 /\ account_created' = TRUE
                 /\ success' = success + 1
                 /\ UNCHANGED retries
            ELSE /\ retries' = retries + 1
                 /\ UNCHANGED <<successful_accounts, account_created, success>>
       ELSE /\ retries' = retries + 1
            /\ UNCHANGED <<successful_accounts, account_created, success>>
    \* creator.close(): self.driver.quit() if there is a driver
    /\ driver' = IF driver = "open" THEN "closed" ELSE driver
    /\ email_verifier' = FALSE
    /\ pc' = "while"
    /\ UNCHANGED <<cfgVars, managerVars, fileVars, proxyVars, captchaVars, partVars, abortAt, i, failed, sleeps, delay,
                   outputFile,
                   user_info, temp_mail, attempt, cpc, stepsRun, ret,
                   leaked, verifier_driver, createdEmails>>

\* Mutant of account_done: the failure is counted only when retries exceeds
\* max_retries, which never happens.
account_done_miscount ==
    /\ pc = "while"
    /\ account_created \/ retries >= max_retries
    /\ failed' = IF ~account_created /\ retries > max_retries
                 THEN failed + 1 ELSE failed
    /\ IF i < num_accounts - 1
       THEN IF min_delay > max_delay
            THEN /\ pc' = "aborted"
                 /\ abortAt' = "delay"
                 /\ UNCHANGED <<i, sleeps, delay>>
            ELSE /\ sleeps' = sleeps + 1
                 /\ \E d \in min_delay..max_delay : delay' = d
                 /\ i' = i + 1
                 /\ pc' = "for"
                 /\ UNCHANGED abortAt
       ELSE /\ i' = i + 1
            /\ pc' = "for"
            /\ UNCHANGED <<abortAt, sleeps, delay>>
    /\ UNCHANGED <<cfgVars, managerVars, fileVars, proxyVars, captchaVars, partVars, retries, account_created, success,
                   successful_accounts, outputFile,
                   creatorVars, envVars, histVars>>

\* Mutant of account_done: the pause is taken after every index, the last
\* one included.
account_done_sleep_always ==
    /\ pc = "while"
    /\ account_created \/ retries >= max_retries
    /\ failed' = IF account_created THEN failed ELSE failed + 1
    /\ IF min_delay > max_delay
       THEN /\ pc' = "aborted"
            /\ abortAt' = "delay"
            /\ UNCHANGED <<i, sleeps, delay>>
       ELSE /\ sleeps' = sleeps + 1
            /\ \E d \in min_delay..max_delay : delay' = d
            /\ i' = i + 1
            /\ pc' = "for"
            /\ UNCHANGED abortAt
    /\ UNCHANGED <<cfgVars, managerVars, fileVars, proxyVars, captchaVars, partVars, retries, account_created, success,
                   successful_accounts, outputFile,
                   creatorVars, envVars, histVars>>

\* The while loop is left; if not account_created: stats["failed"] += 1.
\* if i < num_accounts - 1: delay = random.randint(min_delay, max_delay);
\* time.sleep(delay).  randint raises ValueError for an empty range, outside
\* every try block.
account_done ==
    /\ pc = "while"
    /\ account_created \/ retries >= max_retries
    /\ failed' = IF account_created THEN failed ELSE failed + 1
    /\ IF i < num_accounts - 1
       THEN IF min_delay > max_delay
            THEN /\ pc' = "aborted"
                 /\ abortAt' = "delay"
                 /\ UNCHANGED <<i, sleeps, delay>>
            ELSE /\ sleeps' = sleeps + 1
                 /\ \E d \in min_delay..max_delay : delay' = d
                 /\ i' = i + 1
                 /\ pc' = "for"
                 /\ UNCHANGED abortAt
       ELSE /\ i' = i + 1
            /\ pc' = "for"
            /\ UNCHANGED <<abortAt, sleeps, delay>>
    /\ UNCHANGED <<cfgVars, managerVars, fileVars, proxyVars, captchaVars, partVars, retries, account_created, success,
                   successful_accounts, outputFile,
                   creatorVars, envVars, histVars>>

\* self._save_results(...): open(output_file, "w") and json.dump of this
\* run's results; the file's previous content is replaced.
save_results ==
    /\ pc = "for"
    /\ i = num_accounts
    /\ outputFile' = successful_accounts
    /\ pc' = "done"
    /\ UNCHANGED <<cfgVars, managerVars, fileVars, proxyVars, captchaVars, partVars, abortAt, i, retries, account_created,
                   success, failed,
                   sleeps, delay, successful_accounts,
                   creatorVars, envVars, histVars>>

Next ==
    \/ BatchAccountCreator_init
    \/ setup_components
    \/ for_next
    \/ start_attempt
    \/ generate_temp_mail
    \/ fill_signup_form
    \/ click_next
    \/ select_gender
    \/ confirm_location
    \/ select_interests
    \/ check_account_created
    \/ handle_result
    \/ account_done
    \/ save_results

Spec == Init /\ [][Next]_vars

-----------------------------------------------------------------------------
(***************************************************************************)
(* Part 2: AccountManager (account_manager.py) run from main() (main.py).  *)
(* One thread runs main() and start(); every submitted task runs in a      *)
(* pool thread of its own (each pool has as many workers as tasks).        *)
(***************************************************************************)
CreatorIds == 0..(num_creation_threads - 1)

VerifierIds == 0..(num_verification_threads - 1)

\* The variables of Part 1, none of which AccountManager touches.
sequentialVars == <<cfgVars, loopVars, creatorVars, verifier_driver, histVars,
                    proxyVars, captchaVars, partVars>>

\* driver.quit() on a session
Quit(session) == IF session = "open" THEN "closed" ELSE session

\* main(): manager = AccountManager(...)
InitThreaded ==
    /\ mode = "threaded"
    /\ num_accounts = 0
    /\ max_retries = 0
    /\ min_delay = 0
    /\ max_delay = 0
    /\ outputFile = <<>>
    /\ NothingStarted
    /\ NoProxies
    /\ NoCaptcha
    /\ NoMail
    /\ NoLinks
    /\ NoImap
    /\ NoVerify
    /\ NoPages
    /\ NoCreate
    /\ \E nc \in 0..MaxCreators, nv \in 0..MaxVerifiers : AccountManager_init(nc, nv)
    /\ main_pc = "start"

\* start(): both submit loops.
start_submit ==
    /\ main_pc = "start"
    /\ creator_thread' = [c \in CreatorIds |-> "queued"]
    /\ verifier_thread' = [v \in VerifierIds |-> "check"]
    /\ main_pc' = "waitCreation"
    /\ UNCHANGED <<sequentialVars, fileVars, leaked, num_creation_threads,
                   num_verification_threads, is_running, creator_session,
                   active_creators, verification_queue, verifier_session, verifier_temp_mail,
                   active_verifiers, polls_after_stop, iter_size, iter_seen>>

\* start(): self.creation_pool.shutdown(wait=True) returns.
creation_pool_shutdown ==
    /\ main_pc = "waitCreation"
    /\ \A c \in CreatorIds : creator_thread[c] = "done"
    /\ main_pc' = "waitVerification"
    /\ UNCHANGED <<sequentialVars, fileVars, leaked, num_creation_threads,
                   num_verification_threads, is_running, creator_thread,
                   creator_session, active_creators, verification_queue,
                   verifier_thread, verifier_session, verifier_temp_mail, active_verifiers,
                   polls_after_stop, iter_size, iter_seen>>

\* start(): self.verification_pool.shutdown(wait=True) returns and the
\* finally clause starts to iterate over self.active_creators.
verification_pool_shutdown ==
    /\ main_pc = "waitVerification"
    /\ \A v \in VerifierIds : verifier_thread[v] = "exited"
    /\ main_pc' = "closeCreators"
    /\ iter_size' = Cardinality(active_creators)
    /\ iter_seen' = {}
    /\ UNCHANGED <<sequentialVars, fileVars, leaked, num_creation_threads,
                   num_verification_threads, is_running, creator_thread,
                   creator_session, active_creators, verification_queue,
                   verifier_thread, verifier_session, verifier_temp_mail, active_verifiers,
                   polls_after_stop>>

\* A KeyboardInterrupt reaches the main thread inside the try block of
\* start(): except KeyboardInterrupt sets is_running = False, shuts both
\* pools down without waiting, and the finally clause starts.
KeyboardInterrupt_in_start ==
    /\ main_pc \in {"start", "waitCreation", "waitVerification"}
    /\ is_running' = FALSE
    /\ main_pc' = "closeCreators"
    /\ iter_size' = Cardinality(active_creators)
    /\ iter_seen' = {}
    /\ UNCHANGED <<sequentialVars, fileVars, leaked, num_creation_threads,
                   num_verification_threads, creator_thread,
                   creator_session, active_creators, verification_queue,
                   verifier_thread, verifier_session, verifier_temp_mail, active_verifiers,
                   polls_after_stop>>

\* start(), finally: for creator in self.active_creators.values(): creator.close()
\* One step of the iteration.  A dictionary whose size changed since the
\* iteration began makes the next step raise RuntimeError, which leaves
\* start() and is caught by main()'s except Exception.
close_creators ==
    /\ main_pc = "closeCreators"
    /\ IF Cardinality(active_creators) # iter_size
       THEN /\ main_pc' = "stop"
            /\ iter_size' = 0
            /\ iter_seen' = {}
            /\ UNCHANGED creator_session
       ELSE IF active_creators \ iter_seen # {}
            THEN \E c \in active_creators \ iter_seen :
                    /\ creator_session' =
                          [creator_session EXCEPT ![c] = Quit(creator_session[c])]
                    /\ iter_seen' = iter_seen \cup {c}
                    /\ UNCHANGED <<main_pc, iter_size>>
            ELSE /\ main_pc' = "closeVerifiers"
                 /\ iter_size' = Cardinality(active_verifiers)
                 /\ iter_seen' = {}
                 /\ UNCHANGED creator_session
    /\ UNCHANGED <<sequentialVars, fileVars, leaked, num_creation_threads,
                   num_verification_threads, is_running, creator_thread,
                   active_creators, verification_queue,
                   verifier_thread, verifier_session, verifier_temp_mail, active_verifiers,
                   polls_after_stop>>

\* start(), finally: for verifier in self.active_verifiers.values(): verifier.close()
\* After the last one start() returns, and so does main().
close_verifiers ==
    /\ main_pc = "closeVerifiers"
    /\ IF Cardinality(active_verifiers) # iter_size
       THEN /\ main_pc' = "stop"
            /\ iter_size' = 0
            /\ iter_seen' = {}
            /\ UNCHANGED verifier_session
       ELSE IF active_verifiers \ iter_seen # {}
            THEN \E v \in active_verifiers \ iter_seen :
                    /\ verifier_session' =
                          [verifier_session EXCEPT ![v] = Quit(verifier_session[v])]
                    /\ iter_seen' = iter_seen \cup {v}
                    /\ UNCHANGED <<main_pc, iter_size>>
            ELSE /\ main_pc' = "returned"
                 /\ iter_size' = 0
                 /\ iter_seen' = {}
                 /\ UNCHANGED verifier_session
    /\ UNCHANGED verifier_temp_mail
    /\ UNCHANGED <<sequentialVars, fileVars, leaked, num_creation_threads,
                   num_verification_threads, is_running, creator_thread,
                   creator_session, active_creators, verification_queue,
                   verifier_thread, active_verifiers, polls_after_stop>>

\* A KeyboardInterrupt reaches the main thread inside the finally clause of
\* start(): it leaves start() and is caught by main()'s except
\* KeyboardInterrupt.
KeyboardInterrupt_in_finally ==
    /\ main_pc \in {"closeCreators", "closeVerifiers"}
    /\ main_pc' = "stop"
    /\ iter_size' = 0
    /\ iter_seen' = {}
    /\ UNCHANGED <<sequentialVars, fileVars, leaked, num_creation_threads,
                   num_verification_threads, is_running, creator_thread,
                   creator_session, active_creators, verification_queue,
                   verifier_thread, verifier_session, verifier_temp_mail, active_verifiers,
                   polls_after_stop>>

\* main(): manager.stop(), then main() returns.
stop ==
    /\ main_pc = "stop"
    /\ is_running' = FALSE
    /\ main_pc' = "returned"
    /\ UNCHANGED <<sequentialVars, fileVars, leaked, num_creation_threads,
                   num_verification_threads, creator_thread,
                   creator_session, active_creators, verification_queue,
                   verifier_thread, verifier_session, verifier_temp_mail, active_verifiers,
                   polls_after_stop, iter_size, iter_seen>>

\* The interpreter exits after main() returned: it first joins the pool
\* threads, so every task that was started has run to its end.
process_exit ==
    /\ main_pc = "returned"
    /\ \A c \in CreatorIds : creator_thread[c] \in {"idle", "done"}
    /\ \A v \in VerifierIds : verifier_thread[v] \in {"idle", "exited"}
    /\ main_pc' = "exited"
    /\ UNCHANGED <<sequentialVars, fileVars, leaked, num_creation_threads,
                   num_verification_threads, is_running, creator_thread,
                   creator_session, active_creators, verification_queue,
                   verifier_thread, verifier_session, verifier_temp_mail, active_verifiers,
                   polls_after_stop, iter_size, iter_seen>>

(***************************************************************************)
(* Creation task: AccountManager.create_account(creator_id).               *)
(***************************************************************************)
\* creator = PinterestAccountCreator(...); self.active_creators[creator_id] = creator
\* The constructor runs setup_driver, which reports a failure only by its
\* return value.
creator_construct(c) ==
    /\ creator_thread[c] = "queued"
    /\ \E r \in setup_driver :
          /\ leaked + r.leaked <= MaxLeaked
          /\ leaked' = leaked + r.leaked
          /\ creator_session' = [creator_session EXCEPT ![c] = r.driver]
    /\ active_creators' = active_creators \cup {c}
    /\ creator_thread' = [creator_thread EXCEPT ![c] = "running"]
    /\ UNCHANGED <<sequentialVars, fileVars, num_creation_threads,
                   num_verification_threads, is_running, main_pc,
                   verification_queue, verifier_thread, verifier_session, verifier_temp_mail,
                   active_verifiers, polls_after_stop, iter_size, iter_seen>>

\* What creator.create_account() hands back (Part 1): a pair with True, a
\* pair with False, or None; True needs a browser that is still running.
create_account_results(session) ==
    IF session = "open" THEN {"created", "failed", "none"}
                        ELSE {"failed", "none"}

\* success, result = creator.create_account(); on success the account is put
\* on the verification queue; unpacking None raises TypeError, caught by
\* except Exception; finally closes the creator and drops it from
\* self.active_creators.
creator_finish(c) ==
    /\ creator_thread[c] = "running"
    /\ \E r \in create_account_results(creator_session[c]) :
          verification_queue' = IF r = "created"
                                THEN Append(verification_queue, c)
                                ELSE verification_queue
    /\ creator_session' = [creator_session EXCEPT ![c] = Quit(creator_session[c])]
    /\ active_creators' = active_creators \ {c}
    /\ creator_thread' = [creator_thread EXCEPT ![c] = "done"]
    /\ UNCHANGED <<sequentialVars, fileVars, leaked, num_creation_threads,
                   num_verification_threads, is_running, main_pc,
                   verifier_thread, verifier_session, verifier_temp_mail,
                   active_verifiers, polls_after_stop, iter_size, iter_seen>>

(***************************************************************************)
(* Verification task: AccountManager.verify_account(verifier_id).          *)
(***************************************************************************)
\* while self.is_running:
verify_loop_test(v) ==
    /\ verifier_thread[v] = "check"
    /\ verifier_thread' =
          [verifier_thread EXCEPT ![v] = IF is_running THEN "get" ELSE "exited"]
    /\ UNCHANGED <<sequentialVars, fileVars, leaked, num_creation_threads,
                   num_verification_threads, is_running, main_pc,
                   creator_thread, creator_session, active_creators,
                   verification_queue, verifier_session, verifier_temp_mail,
                   active_verifiers, polls_after_stop, iter_size, iter_seen>>

\* creator_id, account_info = self.verification_queue.get(timeout=5) returns
\* the head of the queue.
queue_get(v) ==
    /\ verifier_thread[v] = "get"
    /\ verification_queue # <<>>
    /\ verification_queue' = Tail(verification_queue)
    /\ verifier_thread' = [verifier_thread EXCEPT ![v] = "got"]
    /\ UNCHANGED <<sequentialVars, fileVars, leaked, num_creation_threads,
                   num_verification_threads, is_running, main_pc,
                   creator_thread, creator_session, active_creators,
                   verifier_session, verifier_temp_mail,
                   active_verifiers, polls_after_stop, iter_size, iter_seen>>

\* Mutant of queue_Empty: after the timeout the get is retried at once,
\* without going back to the test of self.is_running.
queue_Empty_retry(v) ==
    /\ verifier_thread[v] = "get"
    /\ verification_queue = <<>>
    /\ verifier_thread' = [verifier_thread EXCEPT ![v] = "get"]
    /\ polls_after_stop' =
          [polls_after_stop EXCEPT ![v] = IF is_running THEN @ ELSE @ + 1]
    /\ UNCHANGED <<sequentialVars, fileVars, leaked, num_creation_threads,
                   num_verification_threads, is_running, main_pc,
                   creator_thread, creator_session, active_creators,
                   verification_queue, verifier_session, verifier_temp_mail,
                   active_verifiers, iter_size, iter_seen>>

\* The get times out on the empty queue: except queue.Empty: continue.
queue_Empty(v) ==
    /\ verifier_thread[v] = "get"
    /\ verification_queue = <<>>
    /\ verifier_thread' = [verifier_thread EXCEPT ![v] = "check"]
    /\ polls_after_stop' =
          [polls_after_stop EXCEPT ![v] = IF is_running THEN @ ELSE @ + 1]
    /\ UNCHANGED <<sequentialVars, fileVars, leaked, num_creation_threads,
                   num_verification_threads, is_running, main_pc,
                   creator_thread, creator_session, active_creators,
                   verification_queue, verifier_session, verifier_temp_mail,
                   active_verifiers, iter_size, iter_seen>>

\* EmailVerifier.verify_with_temp_mail of a verifier whose temp_mail is
\* tm: without a mailbox it returns False at once.
verify_with_temp_mail(tm, found) ==
    IF tm = "none" THEN FALSE ELSE found

\* The rest of the loop body: the worker's EmailVerifier is created (and its
\* browser launched) the first time, verify_with_temp_mail is called on it,
\* and the account is saved if that returned True.  The verifier made here
\* never got a mailbox.  A browser that cannot be launched raises out of
\* the constructor and is caught by except Exception.
verify_item(v) ==
    /\ verifier_thread[v] = "got"
    /\ IF v \notin active_verifiers
       THEN \E launched \in BOOLEAN :
              IF launched
              THEN /\ verifier_session' = [verifier_session EXCEPT ![v] = "open"]
                   /\ verifier_temp_mail' =
                         [verifier_temp_mail EXCEPT ![v] = "none"]
                   /\ active_verifiers' = active_verifiers \cup {v}
                   /\ ~verify_with_temp_mail(verifier_temp_mail'[v], TRUE)
              ELSE UNCHANGED <<verifier_session, verifier_temp_mail,
                               active_verifiers>>
       ELSE /\ ~verify_with_temp_mail(verifier_temp_mail[v], TRUE)
            /\ UNCHANGED <<verifier_session, verifier_temp_mail,
                           active_verifiers>>
    /\ verifier_thread' = [verifier_thread EXCEPT ![v] = "check"]
    /\ UNCHANGED <<sequentialVars, fileVars, leaked, num_creation_threads,
                   num_verification_threads, is_running, main_pc,
                   creator_thread, creator_session, active_creators,
                   verification_queue, polls_after_stop, iter_size, iter_seen>>

\* The steps of one verification worker.
verify_account(v) ==
    \/ verify_loop_test(v)
    \/ queue_get(v)
    \/ queue_Empty(v)
    \/ verify_item(v)

NextThreaded ==
    \/ start_submit
    \/ creation_pool_shutdown
    \/ verification_pool_shutdown
    \/ KeyboardInterrupt_in_start
    \/ close_creators
    \/ close_verifiers
    \/ KeyboardInterrupt_in_finally
    \/ stop
    \/ process_exit
    \/ \E c \in CreatorIds : creator_construct(c)
    \/ \E c \in CreatorIds : creator_finish(c)
    \/ \E v \in VerifierIds : verify_loop_test(v)
    \/ \E v \in VerifierIds : queue_get(v)
    \/ \E v \in VerifierIds : queue_Empty(v)
    \/ \E v \in VerifierIds : verify_item(v)

SpecThreaded == InitThreaded /\ [][NextThreaded]_vars

\* The operating system schedules every pool thread again and again, and a
\* blocked get returns or times out.
FairSpecThreaded ==
    /\ SpecThreaded
    /\ \A v \in 0..(MaxVerifiers - 1) :
          WF_vars(v \in VerifierIds /\ verify_account(v))

-----------------------------------------------------------------------------
(***************************************************************************)
(* Properties of the sequential orchestrators (checked under Spec).        *)
(***************************************************************************)

\* C1: when a run over num_accounts indices ends and no attempt of it ever got
\* a True from check_account_created, the run reports success = 0 and
\* failed = num_accounts and the output holds no account record.
C1_AllFailAccounting ==
    (pc = "done" /\ createdEmails = {}) =>
        /\ success = 0
        /\ failed = num_accounts
        /\ successful_accounts = <<>>
        /\ outputFile = <<>>

C1_Witness ==
    /\ pc = "done"
    /\ createdEmails = {}
    /\ num_accounts >= 2
    /\ max_retries >= 2
    /\ failed = num_accounts
    /\ outputFile = <<>>

\* C2: a failed create_account call, by a failure value or by an exception,
\* never ends the run: the call is followed by the next retry or the next
\* index, every finished index is counted exactly once in success or failed,
\* and a run that ends has success + failed = num_accounts.  The only ways
\* out of the loop are a browser that cannot be started while the
\* orchestrator is set up and an empty delay range, neither caused by an
\* attempt.
C2_FailureNeverAborts ==
    /\ pc \in {"for", "done"} => success + failed = i
    /\ pc \in {"while", "create", "returned"} =>
            /\ i < num_accounts
            /\ success + failed = i + (IF account_created THEN 1 ELSE 0)
    /\ pc = "done" => i = num_accounts /\ success + failed = num_accounts
    /\ pc = "aborted" =>
            \/ abortAt = "setup" /\ success + failed = 0
            \/ abortAt = "delay" /\ min_delay > max_delay
                                 /\ success + failed = i + 1

C2_Witness ==
    /\ pc = "done"
    /\ num_accounts >= 2
    /\ success >= 1
    /\ failed >= 1
    /\ ret.kind = "none"

\* C3: every account record collected or written by the run has a non-empty
\* address and a non-empty password and belongs to an attempt whose
\* check_account_created returned True; attempts that failed part-way leave
\* no record.
C3_RecordsComplete ==
    /\ \A k \in 1..Len(successful_accounts) :
          /\ successful_accounts[k].email > 0
          /\ successful_accounts[k].password > 0
          /\ successful_accounts[k].email \in createdEmails
    /\ \A k \in 1..Len(outputFile) :
          /\ outputFile[k].email > 0
          /\ outputFile[k].password > 0
          /\ outputFile[k].run = 1 => outputFile[k].email \in createdEmails
    /\ Len(successful_accounts) = success

C3_Witness ==
    /\ pc = "done"
    /\ failed >= 1
    /\ Len(outputFile) >= 1
    /\ outputFile[1].run = 1

\* C4 (as claimed): when the run is over, no browser session is running.
C4_SessionsClosed ==
    pc \in {"done", "aborted"} => OpenSessions = 0

\* C5: inside one attempt the steps succeed in the order of StepOrder (form,
\* gender, location, interests, check among them), a step runs only after
\* all earlier ones of the same attempt succeeded, and (True, user_info) is
\* returned only by an attempt in which all of them succeeded.
C5_StepOrder ==
    /\ IsPrefix(stepsRun, StepOrder)
    /\ (pc = "create" /\ cpc \in Range(StepOrder)) =>
          \E n \in 1..Len(StepOrder) :
              /\ StepOrder[n] = cpc
              /\ Len(stepsRun) = n - 1
    /\ (pc = "returned" /\ ret.kind = "pair" /\ ret.success) =>
          stepsRun = StepOrder

C5_Witness ==
    /\ pc = "returned"
    /\ ret.kind = "pair"
    /\ ret.success
    /\ attempt = 1
    /\ stepsRun = StepOrder

\* C6 (as claimed): an account is reported as created only after the
\* verification step ran in that attempt.
C6_VerifiedBeforeCreated ==
    (pc = "returned" /\ ret.kind = "pair" /\ ret.success) =>
        "verify" \in Range(stepsRun)

\* C7 (as claimed): create_account returns a (success, result) pair on every
\* path.
C7_ReturnsPair ==
    pc = "returned" => ret.kind = "pair"

\* C8 (as claimed): a save never removes or changes a record the output file
\* already holds.
C8_AppendOnly ==
    [][IsPrefix(outputFile, outputFile')]_vars

-----------------------------------------------------------------------------
(***************************************************************************)
(* Properties of the threaded orchestrator.                                *)
(***************************************************************************)

\* C9: once is_running is False, a verification worker takes at most one
\* more queue.Empty timeout, after that timeout it does nothing but test the
\* flag and leave, and a worker that waits on the empty queue while the flag
\* is False does leave its loop.
C9_WorkerLeavesAfterOnePoll ==
    /\ [](\A v \in VerifierIds :
            /\ polls_after_stop[v] <= 1
            /\ polls_after_stop[v] = 1 =>
                  verifier_thread[v] \in {"check", "exited"})
    /\ \A v \in 0..(MaxVerifiers - 1) :
          (/\ v \in VerifierIds
           /\ ~is_running
           /\ verifier_thread[v] = "get"
           /\ verification_queue = <<>>)
             ~> (v \in VerifierIds /\ verifier_thread[v] = "exited")

C9_Witness ==
    /\ num_verification_threads >= 1
    /\ ~is_running
    /\ \A v \in VerifierIds :
          verifier_thread[v] = "exited" /\ polls_after_stop[v] = 1

\* C10 (as claimed): when the process exits after a shutdown, no session
\* tracked in active_creators or active_verifiers is still running.
C10_TrackedSessionsClosed ==
    (main_pc = "exited" /\ ~is_running) =>
        /\ \A c \in active_creators : creator_session[c] # "open"
        /\ \A v \in active_verifiers : verifier_session[v] # "open"

\* C11 (as claimed): in threaded mode the browser of a creation worker is
\* closed only by the step in which that worker ends its own task; no other
\* thread closes it while the worker is still running.
C11_OnlyOwnerCloses ==
    [][\A c \in CreatorIds :
          (creator_session[c] = "open" /\ creator_session'[c] = "closed")
              => (creator_thread[c] = "running" /\ creator_thread'[c] = "done")]_vars

-----------------------------------------------------------------------------
(***************************************************************************)
(* Part 3: saving a verified account, AccountManager.verify_account lines  *)
(* 132-142 with save_verified_account, run by the verification workers     *)
(* side by side.  What verify_with_temp_mail returned is an input here;     *)
(* in AccountManager as it stands the verifier has no mailbox and the       *)
(* answer is always False (see verify_item).                               *)
(***************************************************************************)
\* most records the JSON file takes before the workers stop
MaxSaved == 3

\* largest num_verification_threads where the workers save side by side
MaxWriters == 2

sequentialAndManagerVars == <<sequentialVars, leaked, managerVars>>

\* Every verification worker has taken an account from the queue and is
\* about to call verify_with_temp_mail.
InitFileLock ==
    /\ mode = "threaded"
    /\ num_accounts = 0
    /\ max_retries = 0
    /\ min_delay = 0
    /\ max_delay = 0
    /\ outputFile = <<>>
    /\ NothingStarted
    /\ NoProxies
    /\ NoCaptcha
    /\ NoMail
    /\ NoLinks
    /\ NoImap
    /\ NoVerify
    /\ NoPages
    /\ NoCreate
    /\ num_creation_threads = 0
    /\ num_verification_threads \in 1..MaxWriters
    /\ is_running = TRUE
    /\ main_pc = "waitVerification"
    /\ creator_thread = <<>>
    /\ creator_session = <<>>
    /\ active_creators = {}
    /\ verification_queue = <<>>
    /\ verifier_thread = [v \in VerifierIds |-> "got"]
    /\ verifier_session = [v \in VerifierIds |-> "open"]
    /\ verifier_temp_mail = [v \in VerifierIds |-> "none"]
    /\ active_verifiers = VerifierIds
    /\ polls_after_stop = [v \in VerifierIds |-> 0]
    /\ iter_size = 0
    /\ iter_seen = {}
    /\ file_lock = <<>>
    /\ save_pc = [v \in VerifierIds |-> "verify"]
    /\ json_file = <<>>
    /\ txt_file = <<>>

\* success = verifier.verify_with_temp_mail(...); if success: ... else: log.
\* After a failure the worker goes round its loop to the next account.
verify_result(v) ==
    /\ save_pc[v] = "verify"
    /\ Len(json_file) < MaxSaved
    /\ \E verified \in BOOLEAN :
          save_pc' = [save_pc EXCEPT ![v] = IF verified THEN "lock" ELSE "verify"]
    /\ UNCHANGED <<sequentialAndManagerVars, file_lock, json_file, txt_file>>

\* Mutant of file_lock_acquire: save_verified_account is entered without
\* waiting for the lock.
file_lock_acquire_no_wait(v) ==
    /\ save_pc[v] = "lock"
    /\ file_lock' = <<v>>
    /\ save_pc' = [save_pc EXCEPT ![v] = "json"]
    /\ UNCHANGED <<sequentialAndManagerVars, json_file, txt_file>>

\* with self.file_lock:  (acquire; blocks while another thread holds it)
file_lock_acquire(v) ==
    /\ save_pc[v] = "lock"
    /\ file_lock = <<>>
    /\ file_lock' = <<v>>
    /\ save_pc' = [save_pc EXCEPT ![v] = "json"]
    /\ UNCHANGED <<sequentialAndManagerVars, json_file, txt_file>>

\* save_verified_account: with open("pinterest_accounts.json", "a") ...
\* An exception (the file cannot be opened or written) is caught by the
\* method's except clause, which skips the text file.
write_json(v) ==
    /\ save_pc[v] = "json"
    /\ \E written \in BOOLEAN :
          IF written
          THEN /\ json_file' = Append(json_file, v)
               /\ save_pc' = [save_pc EXCEPT ![v] = "txt"]
          ELSE /\ json_file' = json_file
               /\ save_pc' = [save_pc EXCEPT ![v] = "unlock"]
    /\ UNCHANGED <<sequentialAndManagerVars, file_lock, txt_file>>

\* save_verified_account: with open("pinterest_accounts.txt", "a") ...
write_txt(v) ==
    /\ save_pc[v] = "txt"
    /\ \E written \in BOOLEAN :
          txt_file' = IF written THEN Append(txt_file, v) ELSE txt_file
    /\ save_pc' = [save_pc EXCEPT ![v] = "unlock"]
    /\ UNCHANGED <<sequentialAndManagerVars, file_lock, json_file>>

\* The with block is left: the lock is released; the worker logs the result
\* and goes round its loop to the next account.
file_lock_release(v) ==
    /\ save_pc[v] = "unlock"
    /\ file_lock' = <<>>
    /\ save_pc' = [save_pc EXCEPT ![v] = "verify"]
    /\ UNCHANGED <<sequentialAndManagerVars, json_file, txt_file>>

NextFileLock ==
    \/ \E v \in VerifierIds : verify_result(v)
    \/ \E v \in VerifierIds : file_lock_acquire(v)
    \/ \E v \in VerifierIds : write_json(v)
    \/ \E v \in VerifierIds : write_txt(v)
    \/ \E v \in VerifierIds : file_lock_release(v)

SpecFileLock == InitFileLock /\ [][NextFileLock]_vars

\* The workers that are between acquiring and releasing the file lock.
Writers == { v \in VerifierIds : save_pc[v] \in {"json", "txt", "unlock"} }

RECURSIVE IsSubseq(_, _)
\* s can be obtained from t by leaving elements out.
IsSubseq(s, t) ==
    IF s = <<>> THEN TRUE
    ELSE IF t = <<>> THEN FALSE
    ELSE IF Head(s) = Head(t) THEN IsSubseq(Tail(s), Tail(t))
    ELSE IsSubseq(s, Tail(t))

\* C12: at most one verification worker at a time is inside
\* save_verified_account, and it is the holder of the file lock from before
\* its JSON append until after its text append; so the records of the text
\* file follow each other in the order of the JSON file, a record's text
\* entry being written before any other record's JSON entry.
C12_OneWriterAtATime ==
    /\ Cardinality(Writers) <= 1
    /\ \A v \in Writers : file_lock = <<v>>
    /\ Writers = {} => file_lock = <<>>
    /\ IsSubseq(txt_file, json_file)
    /\ \A v \in VerifierIds :
          save_pc[v] = "txt" => json_file[Len(json_file)] = v

C12_Witness ==
    /\ Len(txt_file) >= 2
    /\ txt_file[1] # txt_file[2]
    /\ \E v \in VerifierIds, w \in VerifierIds :
          save_pc[v] = "txt" /\ save_pc[w] = "lock"

-----------------------------------------------------------------------------
(***************************************************************************)
(* Part 4.  Proxies: ProxyHandler (batch_account_creator.py), ProxyManager *)
(* (utils/proxy_manager.py) and the three callers that select a proxy for  *)
(* an attempt: BatchAccountCreator.create_accounts,                        *)
(* PinterestAutomation.create_accounts and main() of                       *)
(* test_account_creation.py.  The attempt itself is one step whose outcome *)
(* is an input; Part 1 models it in detail.  A proxy is a name in          *)
(* 1..MaxPool and 0 is None.                                               *)
(***************************************************************************)
MaxPool == 2
MaxProxyRetries == 4

\* The pools a handler can hold: any sequence of at most MaxPool names, the
\* same name twice included.
Pools == UNION {[1..k -> 1..MaxPool] : k \in 0..MaxPool}

\* mode "test" is main() of test_account_creation.py.
InitProxy ==
    /\ mode \in {"batch", "automation", "test"}
    /\ num_accounts \in 0..MaxAccounts
    /\ max_retries \in 0..MaxProxyRetries
    /\ min_delay = 0
    /\ max_delay = 0
    /\ outputFile = <<>>
    /\ NothingStarted
    /\ use_proxy \in BOOLEAN
    /\ \E pool \in Pools : ProxyHandler_init(IF use_proxy THEN pool ELSE <<>>)
    /\ NoCaptcha
    /\ NoMail
    /\ NoLinks
    /\ NoImap
    /\ NoVerify
    /\ NoPages
    /\ NoCreate
    /\ AccountManager_init(0, 0)
    /\ main_pc = "none"

\* get_random_proxy: None when the pool is empty, else random.choice(pool);
\* the set of the values the call can return.
get_random_proxy ==
    IF proxies = <<>> THEN {0} ELSE Range(proxies)

\* get_next_proxy with the cursor stuck on the entry it returned.
get_next_proxy_no_advance ==
    IF proxies = <<>>
    THEN [proxy |-> 0, current_index |-> current_index]
    ELSE [proxy |-> proxies[current_index + 1], current_index |-> current_index]

\* get_next_proxy: None when the pool is empty; else the entry under the
\* cursor, and the cursor moves on by one modulo the length of the pool.
\* The value returned and the cursor after the call.
get_next_proxy ==
    IF proxies = <<>>
    THEN [proxy |-> 0, current_index |-> current_index]
    ELSE [proxy |-> proxies[current_index + 1],
          current_index |-> (current_index + 1) % Len(proxies)]

\* What the proxy part leaves alone in every step.
ProxyFrame ==
    UNCHANGED <<cfgVars, managerVars, fileVars, captchaVars, partVars,
                use_proxy, proxies,
                raw_proxies, load_pc, abortAt,
                success, failed, sleeps, delay, successful_accounts, outputFile,
                creatorVars, envVars, histVars>>

\* Start of the run.  test_account_creation.py builds the ProxyManager and
\* returns from main() when get_proxies() is empty; the two orchestrators
\* build the ProxyHandler and go on to the loop whatever the pool holds.
proxy_startup ==
    /\ pc = "setup"
    /\ pc' = IF mode = "test" /\ use_proxy /\ proxies = <<>>
             THEN "exited" ELSE "for"
    /\ UNCHANGED <<i, retries, account_created, current_index, proxy,
                   next_returns>>
    /\ ProxyFrame

\* Head of the for loop: the orchestrators draw a random proxy for the
\* account when use_proxy is set (None: "continuing without proxy"); the
\* test script draws per attempt instead.
proxy_for_account ==
    /\ pc = "for"
    /\ i < num_accounts
    /\ \E p \in get_random_proxy :
          proxy' = IF mode # "test" /\ use_proxy THEN p ELSE 0
    /\ retries' = 0
    /\ account_created' = FALSE
    /\ pc' = "while"
    /\ UNCHANGED <<i, current_index, next_returns>>
    /\ ProxyFrame

\* One attempt of the while loop.  The orchestrators take the next proxy of
\* the rotation on a retry (retries > 0); the test script draws a random
\* proxy for each attempt.  The creator is then built with that proxy, None
\* included, and the attempt succeeds or fails.
proxy_attempt ==
    /\ pc = "while"
    /\ ~account_created
    /\ retries < max_retries
    /\ IF mode = "test"
       THEN /\ \E p \in get_random_proxy :
                  proxy' = IF use_proxy THEN p ELSE 0
            /\ UNCHANGED <<current_index, next_returns>>
       ELSE IF retries > 0 /\ use_proxy
            THEN /\ proxy' = get_next_proxy.proxy
                 /\ current_index' = get_next_proxy.current_index
                 /\ next_returns' = Append(next_returns, get_next_proxy.proxy)
            ELSE UNCHANGED <<proxy, current_index, next_returns>>
    /\ \E created \in BOOLEAN :
          /\ account_created' = created
          /\ retries' = IF created THEN retries ELSE retries + 1
    /\ UNCHANGED <<pc, i>>
    /\ ProxyFrame

\* The while loop ends: next account.
proxy_account_done ==
    /\ pc = "while"
    /\ (account_created \/ retries >= max_retries)
    /\ i' = i + 1
    /\ pc' = "for"
    /\ UNCHANGED <<retries, account_created, current_index, proxy,
                   next_returns>>
    /\ ProxyFrame

\* The for loop ends.
proxy_run_done ==
    /\ pc = "for"
    /\ i >= num_accounts
    /\ pc' = "done"
    /\ UNCHANGED <<i, retries, account_created, current_index, proxy,
                   next_returns>>
    /\ ProxyFrame

NextProxy ==
    \/ proxy_startup
    \/ proxy_for_account
    \/ proxy_attempt
    \/ proxy_account_done
    \/ proxy_run_done

SpecProxy == InitProxy /\ [][NextProxy]_vars

\* C13 (as claimed): a run whose proxy pool is empty is not ended for that
\* reason: every caller goes on without a proxy.  main() of
\* test_account_creation.py returns before its loop instead.
C13_EmptyPoolNotFatal ==
    (use_proxy /\ proxies = <<>>) => pc # "exited"


\* C14: get_next_proxy is cyclic: on a pool of K >= 1 proxies the k-th call
\* returns the entry ((k - 1) mod K) + 1 of the pool, so K + 1 consecutive
\* calls return the K proxies in pool order and then the first one again;
\* the cursor stays in 0..K-1 and is the number of calls modulo K.
C14_RoundRobin ==
    /\ proxies = <<>> => (current_index = 0
                          /\ \A k \in 1..Len(next_returns) : next_returns[k] = 0)
    /\ proxies # <<>> =>
          /\ current_index \in 0..(Len(proxies) - 1)
          /\ current_index = Len(next_returns) % Len(proxies)
          /\ \A k \in 1..Len(next_returns) :
                next_returns[k] = proxies[((k - 1) % Len(proxies)) + 1]

\* A pool of two different proxies has been asked three times: both in pool
\* order, then the first again.
C14_Witness ==
    /\ Len(proxies) = 2
    /\ proxies[1] # proxies[2]
    /\ Len(next_returns) = Len(proxies) + 1
    /\ next_returns = <<proxies[1], proxies[2], proxies[1]>>
    /\ current_index = 1

-----------------------------------------------------------------------------
(***************************************************************************)
(* Part 5.  ProxyManager._format_proxy and load_proxies_from_file.         *)
(* A proxy string is modelled by its parts: the text before "://" (scheme, *)
(* "" when the string has no "://"), whether it carries user:pass@ (creds),*)
(* the host and the port ("" when the part is missing).  A dictionary      *)
(* entry has the fields protocol, creds ("user_only": a username without a *)
(* password), host and port.  Any other value is of type "other".          *)
(***************************************************************************)
MaxLines == 2

None == [type |-> "None"]

ValidProtocols == {"http", "https", "socks4", "socks5"}

\* str.lower() on the schemes of the model.
Lower(s) == IF s = "HTTP" THEN "http" ELSE s

StringEntries ==
    {e \in [type : {"str"}, scheme : {"", "socks5", "HTTP", "ftp"},
            creds : {"none", "both"}, host : {"", "h"}, port : {"", "p"}] :
        \* a line that is empty after strip() is not read
        ~(e.scheme = "" /\ e.creds = "none" /\ e.host = "" /\ e.port = "")}

DictEntries ==
    [type : {"dict"}, protocol : {"", "socks5"},
     creds : {"none", "user_only", "both"}, host : {"", "h"}, port : {"", "p"}]

Entries == StringEntries \cup DictEntries \cup {[type |-> "other"]}

\* _format_proxy: a dictionary needs ip and port, else None, and is printed
\* as protocol://[user:pass@]ip:port with protocol defaulting to http; a
\* string with a known scheme is returned as it is, a string with another
\* scheme gets http:// in its place, a string without "://" gets http://
\* in front; nothing else of a string is looked at.  Other values: None.
_format_proxy(e) ==
    IF e.type = "dict"
    THEN IF e.host = "" \/ e.port = ""
         THEN None
         ELSE [type |-> "str",
               scheme |-> IF e.protocol = "" THEN "http" ELSE e.protocol,
               creds |-> IF e.creds = "both" THEN "both" ELSE "none",
               host |-> e.host, port |-> e.port]
    ELSE IF e.type = "str"
         THEN IF e.scheme # ""
              THEN IF Lower(e.scheme) \in ValidProtocols
                   THEN e
                   ELSE [e EXCEPT !.scheme = "http"]
              ELSE [e EXCEPT !.scheme = "http"]
         ELSE None

InitFormat ==
    /\ mode = "test"
    /\ num_accounts = 0
    /\ max_retries = 0
    /\ min_delay = 0
    /\ max_delay = 0
    /\ outputFile = <<>>
    /\ NothingStarted
    /\ use_proxy = TRUE
    /\ proxies = <<>>
    /\ current_index = 0
    /\ next_returns = <<>>
    /\ raw_proxies \in UNION {[1..k -> Entries] : k \in 0..MaxLines}
    /\ load_pc = "start"
    /\ NoCaptcha
    /\ NoMail
    /\ NoLinks
    /\ NoImap
    /\ NoVerify
    /\ NoPages
    /\ NoCreate
    /\ AccountManager_init(0, 0)
    /\ main_pc = "none"

FormatFrame ==
    UNCHANGED <<cfgVars, loopVars, creatorVars, envVars, histVars, managerVars,
                fileVars, captchaVars, partVars, use_proxy, current_index, proxy, next_returns,
                raw_proxies>>

\* self.proxies = [line.strip() for line in f.readlines() if line.strip()]
read_lines ==
    /\ load_pc = "start"
    /\ proxies' = raw_proxies
    /\ load_pc' = "read"
    /\ FormatFrame

\* self.proxies = [self._format_proxy(proxy) for proxy in self.proxies]
format_lines ==
    /\ load_pc = "read"
    /\ proxies' = [k \in 1..Len(proxies) |-> _format_proxy(proxies[k])]
    /\ load_pc' = "formatted"
    /\ FormatFrame

\* self.proxies = [p for p in self.proxies if p]
remove_None ==
    /\ load_pc = "formatted"
    /\ proxies' = SelectSeq(proxies, LAMBDA p : p # None)
    /\ load_pc' = "loaded"
    /\ FormatFrame

NextFormat ==
    \/ read_lines
    \/ format_lines
    \/ remove_None

SpecFormat == InitFormat /\ [][NextFormat]_vars

\* An entry of one of the forms ip:port, scheme://ip:port,
\* scheme://user:pass@ip:port or {ip, port}: it names a host and a port.
HasHostAndPort(e) ==
    e.type \in {"str", "dict"} /\ e.host # "" /\ e.port # ""

\* A string of the form scheme://[user:pass@]host:port.
IsNormalForm(p) ==
    p.type = "str" /\ p.scheme # "" /\ p.host # "" /\ p.port # ""

\* C15 (as claimed): after loading, the pool holds exactly the formatted
\* entries that name a host and a port, each of the form
\* scheme://[user:pass@]host:port with the scheme defaulting to http; an
\* entry without a host or without a port is formatted to None and is not
\* in the pool.
C15_NormalisedPool ==
    load_pc = "loaded" =>
        /\ \A k \in 1..Len(proxies) : IsNormalForm(proxies[k])
        /\ \A k \in 1..Len(raw_proxies) :
              ~HasHostAndPort(raw_proxies[k]) => _format_proxy(raw_proxies[k]) = None
        /\ Len(proxies) = Len(SelectSeq(raw_proxies, HasHostAndPort))


\* C16: the sequential orchestrator pauses after every account index except
\* the last one.  While index i is being worked on, i pauses have been taken;
\* once the loop is past index i - 1 the count is i, or num_accounts - 1
\* when that was the final index; so a run over N >= 1 accounts that ends has
\* slept exactly N - 1 times and never after the final attempt.  Every
\* pause taken has min_delay <= delay <= max_delay.
C16_DelayBetweenAccounts ==
    /\ pc \in {"while", "create", "returned"} => sleeps = i
    /\ pc = "for" => sleeps = (IF i < num_accounts \/ i = 0 THEN i ELSE i - 1)
    /\ pc = "aborted" /\ abortAt = "delay" => sleeps = i /\ i < num_accounts - 1
    /\ pc = "done" /\ num_accounts >= 1 => sleeps = num_accounts - 1
    /\ pc = "done" /\ num_accounts = 0 => sleeps = 0
    /\ sleeps > 0 => (min_delay <= delay /\ delay <= max_delay)
    /\ sleeps = 0 => delay = -1

\* A run over two accounts has ended after one pause, with a delay range of
\* more than one value.
C16_Witness ==
    /\ pc = "done"
    /\ num_accounts = 2
    /\ sleeps = 1
    /\ min_delay < max_delay
    /\ delay = max_delay


-----------------------------------------------------------------------------
(***************************************************************************)
(* Part 6.  CaptchaSolver (captcha_solver.py): one call of solve_recaptcha *)
(* or solve_image_captcha.  The four _solve_*_with_* methods have the same *)
(* shape: one submission, then a loop of at most PollAttempts requests for *)
(* the result.  A reply of the service is a record of its HTTP status and  *)
(* of what its body says: "solution" (status 1 / "ready"), "not_ready"     *)
(* (CAPCHA_NOT_READY / errorId 0 while processing) or "error".             *)
(***************************************************************************)
PollAttempts == 30
ManualAttempts == 120

Replies ==
    [status_code : {200}, kind : {"solution", "not_ready", "error"}]
        \cup {[status_code |-> 500, kind |-> "none"]}

InitCaptcha ==
    /\ mode = "automation"
    /\ num_accounts = 0
    /\ max_retries = 0
    /\ min_delay = 0
    /\ max_delay = 0
    /\ outputFile = <<>>
    /\ NothingStarted
    /\ NoProxies
    /\ AccountManager_init(0, 0)
    /\ main_pc = "none"
    /\ api_key \in BOOLEAN
    /\ service \in {"2captcha", "anticaptcha", "other"}
    /\ captcha_kind \in {"recaptcha", "image"}
    /\ manual_driver \in {"none", "headless", "visible"}
    \* setup_driver starts Chrome with AutomationControlled disabled and
    \* redefines navigator.webdriver as undefined in the document that is
    \* loaded at that moment; which value a later page shows is the browser's
    \* matter, headless or not.
    /\ navigator_webdriver \in
          IF manual_driver = "none" THEN {"undefined"}
          ELSE {"undefined", "false", "true"}
    /\ cap_pc = "call"
    /\ task = "none"
    /\ manual = "none"
    /\ polls = 0
    /\ manual_polls = 0
    /\ solution = 0
    /\ last_reply = NoReply
    /\ NoMail
    /\ NoLinks
    /\ NoImap
    /\ NoVerify
    /\ NoPages
    /\ NoCreate

CaptchaFrame ==
    UNCHANGED <<cfgVars, loopVars, creatorVars, envVars, histVars, managerVars,
                fileVars, proxyVars, partVars, api_key, service, captcha_kind,
                manual_driver, navigator_webdriver>>

\* solve_recaptcha / solve_image_captcha up to the submission: without an API
\* key the manual attempt is started at once; solve_image_captcha also starts
\* it when it has no image data or when getting the image raises.
solve_captcha ==
    /\ cap_pc = "call"
    /\ IF ~api_key
       THEN cap_pc' = "manual"
       ELSE IF captcha_kind = "image"
            THEN \E image_data \in BOOLEAN :
                    cap_pc' = IF image_data THEN "submit" ELSE "manual"
            ELSE cap_pc' = "submit"
    /\ UNCHANGED <<task, manual, polls, manual_polls, solution, last_reply>>
    /\ CaptchaFrame

\* The submission: a reply with another HTTP status than 200 or with an error
\* in its body makes the method return None, which the caller returns as it
\* is; an exception of the request is caught by the caller, which starts the
\* manual attempt.
submit_captcha ==
    /\ cap_pc = "submit"
    /\ \E o \in {"accepted", "rejected", "raise"} :
          CASE o = "accepted" -> /\ task' = "Polling"
                                 /\ cap_pc' = "poll"
            [] o = "rejected" -> /\ task' = "Rejected"
                                 /\ cap_pc' = "returned"
            [] o = "raise"    -> /\ task' = "Raised"
                                 /\ cap_pc' = "manual"
    /\ UNCHANGED <<manual, polls, manual_polls, solution, last_reply>>
    /\ CaptchaFrame

\* Mutant of poll_result: an error in the body of the reply is taken for
\* "not ready".
poll_result_ignore_error ==
    /\ cap_pc = "poll"
    /\ polls < PollAttempts
    /\ polls' = polls + 1
    /\ \E raise \in BOOLEAN :
          IF raise
          THEN /\ task' = "Raised"
               /\ cap_pc' = "manual"
               /\ UNCHANGED <<solution, last_reply>>
          ELSE \E reply \in Replies :
                  /\ last_reply' = reply
                  /\ IF reply.status_code # 200
                     THEN UNCHANGED <<task, cap_pc, solution>>
                     ELSE IF reply.kind = "solution"
                          THEN /\ task' = "Solved"
                               /\ solution' = 1
                               /\ cap_pc' = "returned"
                          ELSE UNCHANGED <<task, cap_pc, solution>>
    /\ UNCHANGED <<manual, manual_polls>>
    /\ CaptchaFrame

\* Mutant of poll_result: the loop runs once more than range(30) allows.
poll_result_one_more ==
    /\ cap_pc = "poll"
    /\ polls <= PollAttempts
    /\ polls' = polls + 1
    /\ \E raise \in BOOLEAN :
          IF raise
          THEN /\ task' = "Raised"
               /\ cap_pc' = "manual"
               /\ UNCHANGED <<solution, last_reply>>
          ELSE \E reply \in Replies :
                  /\ last_reply' = reply
                  /\ IF reply.status_code # 200
                     THEN UNCHANGED <<task, cap_pc, solution>>
                     ELSE IF reply.kind = "solution"
                          THEN /\ task' = "Solved"
                               /\ solution' = 1
                               /\ cap_pc' = "returned"
                          ELSE IF reply.kind # "not_ready"
                               THEN /\ task' = "Failed"
                                    /\ cap_pc' = "returned"
                                    /\ UNCHANGED solution
                               ELSE UNCHANGED <<task, cap_pc, solution>>
    /\ UNCHANGED <<manual, manual_polls>>
    /\ CaptchaFrame

\* One turn of `for _ in range(30)`: sleep, ask for the result;
\*   status_code != 200          -> continue
\*   the body carries a solution -> return it
\*   the body is not "not ready" -> return None
\* An exception of the request leaves the method and is caught by the
\* caller, which starts the manual attempt.
poll_result ==
    /\ cap_pc = "poll"
    /\ polls < PollAttempts
    /\ polls' = polls + 1
    /\ \E raise \in BOOLEAN :
          IF raise
          THEN /\ task' = "Raised"
               /\ cap_pc' = "manual"
               /\ UNCHANGED <<solution, last_reply>>
          ELSE \E reply \in Replies :
                  /\ last_reply' = reply
                  /\ IF reply.status_code # 200
                     THEN UNCHANGED <<task, cap_pc, solution>>
                     ELSE IF reply.kind = "solution"
                          THEN /\ task' = "Solved"
                               /\ solution' = 1
                               /\ cap_pc' = "returned"
                          ELSE IF reply.kind # "not_ready"
                               THEN /\ task' = "Failed"
                                    /\ cap_pc' = "returned"
                                    /\ UNCHANGED solution
                               ELSE UNCHANGED <<task, cap_pc, solution>>
    /\ UNCHANGED <<manual, manual_polls>>
    /\ CaptchaFrame

\* The for loop is exhausted: "Timeout waiting for CAPTCHA solution",
\* return None, which the caller returns as it is.
poll_timeout ==
    /\ cap_pc = "poll"
    /\ polls >= PollAttempts
    /\ task' = "TimedOut"
    /\ cap_pc' = "returned"
    /\ UNCHANGED <<manual, polls, manual_polls, solution, last_reply>>
    /\ CaptchaFrame

\* execute_script("return navigator.webdriver"): undefined comes back as
\* None, false and true as themselves.
execute_script_webdriver ==
    CASE navigator_webdriver = "undefined" -> "None"
      [] navigator_webdriver = "false"     -> "False"
      [] navigator_webdriver = "true"      -> "True"

\* _try_manual_solve / _try_manual_image_solve up to the wait: None without a
\* driver ("if not driver"); None when navigator.webdriver "is not None",
\* which is the code's test for "headless"; None when the challenge is not
\* found on the page or a browser call raises; else the wait begins.
try_manual_solve ==
    /\ cap_pc = "manual"
    /\ IF manual_driver = "none"
       THEN /\ manual' = "refused"
            /\ cap_pc' = "returned"
       ELSE IF execute_script_webdriver # "None"
            THEN /\ manual' = "refused"
                 /\ cap_pc' = "returned"
            ELSE \E found \in BOOLEAN :
                    IF found
                    THEN /\ manual' = "waiting"
                         /\ cap_pc' = "manual_poll"
                    ELSE /\ manual' = "error"
                         /\ cap_pc' = "returned"
    /\ UNCHANGED <<task, polls, manual_polls, solution, last_reply>>
    /\ CaptchaFrame

\* One turn of `for _ in range(120)`: read the response field; a value ends
\* the wait.  _try_manual_solve swallows an exception of the read and goes
\* on; in _try_manual_image_solve it ends the attempt with None.
manual_poll ==
    /\ cap_pc = "manual_poll"
    /\ manual_polls < ManualAttempts
    /\ manual_polls' = manual_polls + 1
    /\ \E o \in {"value", "empty", "raise"} :
          CASE o = "value" -> /\ manual' = "solved"
                              /\ solution' = 1
                              /\ cap_pc' = "returned"
            [] o = "empty" -> UNCHANGED <<manual, solution, cap_pc>>
            [] o = "raise" -> IF captcha_kind = "image"
                              THEN /\ manual' = "error"
                                   /\ cap_pc' = "returned"
                                   /\ UNCHANGED solution
                              ELSE UNCHANGED <<manual, solution, cap_pc>>
    /\ UNCHANGED <<task, polls, last_reply>>
    /\ CaptchaFrame

\* The manual wait is exhausted: return None.
manual_timeout ==
    /\ cap_pc = "manual_poll"
    /\ manual_polls >= ManualAttempts
    /\ manual' = "timeout"
    /\ cap_pc' = "returned"
    /\ UNCHANGED <<task, polls, manual_polls, solution, last_reply>>
    /\ CaptchaFrame

NextCaptcha ==
    \/ solve_captcha
    \/ submit_captcha
    \/ poll_result
    \/ poll_timeout
    \/ try_manual_solve
    \/ manual_poll
    \/ manual_timeout

SpecCaptcha == InitCaptcha /\ [][NextCaptcha]_vars


\* The states in which the challenge has ended at the service.
TaskEnded == {"Solved", "Failed", "TimedOut"}

\* C18: after a challenge is submitted it is polled at most 30 times; when
\* the 30 polls are used up without a solution (or an error) the challenge
\* ends as TimedOut and None is returned; a challenge that is Solved, Failed
\* or TimedOut is not polled again and stays as it is; no poll is made before
\* the submission was accepted.
C18_PollingBounded ==
    /\ [](/\ polls \in 0..PollAttempts
          /\ task = "TimedOut" => (polls = PollAttempts /\ solution = 0)
          /\ task \in TaskEnded => cap_pc = "returned"
          /\ task \in {"none", "Rejected"} => polls = 0)
    /\ [][/\ (cap_pc = "poll" /\ polls = PollAttempts) => task' = "TimedOut"
          /\ task \in TaskEnded => (polls' = polls /\ task' = task)]_vars

\* The thirtieth poll found the challenge still not ready and it timed out.
C18_Witness ==
    /\ task = "TimedOut"
    /\ polls = PollAttempts
    /\ last_reply = [status_code |-> 200, kind |-> "not_ready"]
    /\ cap_pc = "returned"
    /\ solution = 0

\* A reply that was delivered (HTTP status 200) and whose body is neither a
\* solution nor "not ready yet".
IsErrorReply(r) == r.status_code = 200 /\ r.kind \notin {"solution", "not_ready"}

\* C19 (amended): while a challenge is polled, a reply with HTTP status 200
\* whose body is neither a solution nor "not ready yet" makes it Failed in
\* that very step: None is returned, no manual attempt is started and no
\* further poll is made, whatever the service; Failed is reached in no other
\* way.  A reply with another HTTP status is polled again.
C19_ErrorReplyFails ==
    [][/\ (cap_pc = "poll" /\ polls' = polls + 1 /\ task' # "Raised"
                /\ IsErrorReply(last_reply'))
            => (task' = "Failed" /\ cap_pc' = "returned" /\ solution' = 0
                /\ manual' = "none")
       /\ (task # "Failed" /\ task' = "Failed")
            => (polls' = polls + 1 /\ IsErrorReply(last_reply'))
       /\ task = "Failed" => (polls' = polls /\ task' = "Failed")]_vars

\* Anti-Captcha answered the third poll with an error.
C19_Witness ==
    /\ service = "anticaptcha"
    /\ task = "Failed"
    /\ polls = 3
    /\ IsErrorReply(last_reply)
    /\ cap_pc = "returned"

\* C19 (as claimed): every reply to a poll that is neither a solution nor
\* "not ready yet" makes the challenge Failed at once.  A reply with an
\* HTTP status other than 200 is such a reply and is polled again.
C19_AnyOtherReplyFails ==
    [][(cap_pc = "poll" /\ polls' = polls + 1 /\ task' # "Raised"
            /\ last_reply' \notin {[status_code |-> 200, kind |-> "solution"],
                                   [status_code |-> 200, kind |-> "not_ready"]})
          => task' = "Failed"]_vars

\* C20 (as claimed): the call falls back to manual solving when no API key
\* is configured and when the service attempt failed: a call that has
\* returned without a key, or after a rejected submission, an error reply
\* or a timeout, has made a manual attempt; the manual wait looks at the
\* page at most 120 times.  The code returns the None of a failed service
\* attempt as it is.
C20_ManualFallback ==
    /\ manual_polls \in 0..ManualAttempts
    /\ (cap_pc = "returned" /\ (~api_key \/ task \in {"Rejected", "Failed", "TimedOut"}))
          => manual # "none"


\* C21 (as claimed): with a headless session the manual attempt reports
\* failure at once and never enters its wait loop.  The code tests
\* navigator.webdriver instead of the session being headless, and
\* setup_driver redefines that property as undefined, so a headless session
\* can pass the test and be waited on.
C21_HeadlessNeverWaits ==
    manual_driver = "headless" =>
        (manual \notin {"waiting", "solved", "timeout"} /\ manual_polls = 0)

-----------------------------------------------------------------------------
(***************************************************************************)
(* Part 7.  TempMail (temp_mail.py): create_email, get_inbox and           *)
(* wait_for_message.  wait_for_message calls get_inbox, which calls        *)
(* create_email when the service has lost the session; each method has its *)
(* own position variable.  A subject is a sequence of letters, upper or    *)
(* lower case, and a message carries a subject that may not be a string.   *)
(***************************************************************************)
MaxMailRetries == 3
MaxTimeout == 3
MaxInterval == 2
MaxInbox == 2

\* create_email(max_retries=3), get_inbox(max_retries=3)
DefaultMaxRetries == 3

Pow2(n) == IF n = 0 THEN 1 ELSE IF n = 1 THEN 2 ELSE IF n = 2 THEN 4
           ELSE IF n = 3 THEN 8 ELSE 16

\* str.lower() on the letters of the model.
LowerChar(ch) == IF ch = "V" THEN "v" ELSE IF ch = "X" THEN "x" ELSE ch

lower(str) == [k \in 1..Len(str) |-> LowerChar(str[k])]

\* a in b for strings: a is a substring of b.
Contains(a, b) ==
    \E k \in 0..(Len(b) - Len(a)) : SubSeq(b, k + 1, k + Len(a)) = a

Subjects == {<<"V">>, <<"x">>}

Keywords == {<<>>, <<"v">>, <<"V">>}

Messages == [is_str : BOOLEAN, subject : Subjects, id : {1}]

Inboxes == UNION {[1..k -> Messages] : k \in 0..MaxInbox}

\* isinstance(subject, str) and subject_keyword.lower() in subject.lower()
Matches(msg) ==
    msg.is_str /\ Contains(lower(subject_keyword), lower(msg.subject))

\* The for loop over messages: the first message that matches.
FirstMatch(box) ==
    box[CHOOSE k \in 1..Len(box) :
            Matches(box[k]) /\ \A j \in 1..(k - 1) : ~Matches(box[j])]

InitTempMail ==
    /\ mode = "automation"
    /\ num_accounts = 0
    /\ max_retries = 0
    /\ min_delay = 0
    /\ max_delay = 0
    /\ outputFile = <<>>
    /\ NothingStarted
    /\ NoProxies
    /\ NoCaptcha
    /\ AccountManager_init(0, 0)
    /\ main_pc = "none"
    /\ tm_entry \in {"create_email", "get_inbox", "wait_for_message"}
    /\ session_id \in (IF tm_entry = "create_email" THEN {0} ELSE {0, 1})
    /\ tm_email = session_id
    /\ inbox = <<>>
    /\ ce_pc = IF tm_entry = "create_email" THEN "try" ELSE "idle"
    /\ ce_max_retries \in (IF tm_entry = "create_email"
                           THEN 0..MaxMailRetries ELSE {0})
    /\ ce_attempt = 0
    /\ ce_backoffs = <<>>
    /\ gi_pc = IF tm_entry = "get_inbox" THEN "call" ELSE "idle"
    /\ gi_max_retries \in (IF tm_entry = "get_inbox"
                           THEN 0..MaxMailRetries ELSE {0})
    /\ gi_attempt = 0
    /\ gi_backoffs = <<>>
    /\ gi_recreated = 0
    /\ wm_pc = IF tm_entry = "wait_for_message" THEN "call" ELSE "idle"
    /\ subject_keyword \in (IF tm_entry = "wait_for_message"
                            THEN Keywords ELSE {<<>>})
    /\ timeout \in (IF tm_entry = "wait_for_message" THEN 0..MaxTimeout ELSE {0})
    /\ check_interval \in (IF tm_entry = "wait_for_message"
                           THEN 1..MaxInterval ELSE {0})
    /\ elapsed = 0
    /\ wm_polls = 0
    /\ wm_failed_polls = 0
    /\ wm_result = NoMessage
    /\ NoLinks
    /\ NoImap
    /\ NoVerify
    /\ NoPages
    /\ NoCreate

MailFrame ==
    UNCHANGED <<cfgVars, loopVars, creatorVars, envVars, histVars, managerVars,
                fileVars, proxyVars, captchaVars, linkVars, imapVars, verifyVars, tailVars,
                tm_entry>>

\* Mutant of create_email_attempt: the backoff is taken after the last
\* failed request too.
create_email_attempt_always_sleep ==
    /\ ce_pc = "try"
    /\ ce_attempt < ce_max_retries
    /\ \E o \in {"ok", "not_ok", "raise"} :
          IF o = "ok"
          THEN /\ \E sid \in {0, 2} :
                     tm_email' = sid /\ session_id' = sid
               /\ ce_pc' = "returned"
               /\ UNCHANGED <<ce_attempt, ce_backoffs>>
          ELSE /\ ce_attempt' = ce_attempt + 1
               /\ ce_backoffs' = Append(ce_backoffs, Pow2(ce_attempt))
               /\ UNCHANGED <<tm_email, session_id, ce_pc>>
    /\ UNCHANGED <<inbox, ce_max_retries, gi_pc, gi_max_retries, gi_attempt,
                   gi_backoffs, gi_recreated, wm_pc, subject_keyword, timeout,
                   check_interval, elapsed, wm_polls, wm_failed_polls, wm_result>>
    /\ MailFrame

\* One turn of create_email's for loop: a response that is ok ends the call
\* with self.email and self.session_id taken from it (None if the reply
\* lacks them); a response that is not ok, or an exception, is logged, and
\* except after the last turn the method sleeps 2 ** attempt seconds.
create_email_attempt ==
    /\ ce_pc = "try"
    /\ ce_attempt < ce_max_retries
    /\ \E o \in {"ok", "not_ok", "raise"} :
          IF o = "ok"
          THEN /\ \E sid \in {0, 2} :
                     tm_email' = sid /\ session_id' = sid
               /\ ce_pc' = "returned"
               /\ UNCHANGED <<ce_attempt, ce_backoffs>>
          ELSE /\ ce_attempt' = ce_attempt + 1
               /\ ce_backoffs' = IF ce_attempt < ce_max_retries - 1
                                 THEN Append(ce_backoffs, Pow2(ce_attempt))
                                 ELSE ce_backoffs
               /\ UNCHANGED <<tm_email, session_id, ce_pc>>
    /\ UNCHANGED <<inbox, ce_max_retries, gi_pc, gi_max_retries, gi_attempt,
                   gi_backoffs, gi_recreated, wm_pc, subject_keyword, timeout,
                   check_interval, elapsed, wm_polls, wm_failed_polls, wm_result>>
    /\ MailFrame

\* The for loop of create_email is exhausted: raise Exception.
create_email_raise ==
    /\ ce_pc = "try"
    /\ ce_attempt >= ce_max_retries
    /\ ce_pc' = "raised"
    /\ UNCHANGED <<session_id, tm_email, inbox, ce_max_retries, ce_attempt,
                   ce_backoffs, gi_pc, gi_max_retries, gi_attempt, gi_backoffs,
                   gi_recreated, wm_pc, subject_keyword, timeout,
                   check_interval, elapsed, wm_polls, wm_failed_polls, wm_result>>
    /\ MailFrame

\* get_inbox: if not self.session_id: raise.
get_inbox_call ==
    /\ gi_pc = "call"
    /\ gi_pc' = IF session_id = 0 THEN "raised" ELSE "try"
    /\ UNCHANGED <<session_id, tm_email, inbox, ce_pc, ce_max_retries,
                   ce_attempt, ce_backoffs, gi_max_retries, gi_attempt,
                   gi_backoffs, gi_recreated, wm_pc, subject_keyword, timeout,
                   check_interval, elapsed, wm_polls, wm_failed_polls, wm_result>>
    /\ MailFrame

\* One turn of get_inbox's for loop up to the answer of the service: ok
\* returns the inbox; the error "Session not found" calls create_email();
\* any other answer, or an exception, is logged and followed by the backoff
\* unless it was the last turn.
get_inbox_attempt ==
    /\ gi_pc = "try"
    /\ gi_attempt < gi_max_retries
    /\ \E o \in {"ok", "session_not_found", "not_ok", "raise"} :
          CASE o = "ok" ->
                  /\ inbox' \in Inboxes
                  /\ gi_pc' = "returned"
                  /\ UNCHANGED <<gi_attempt, gi_backoffs, gi_recreated, ce_pc,
                                 ce_max_retries, ce_attempt, ce_backoffs>>
            [] o = "session_not_found" ->
                  /\ gi_pc' = "recreate"
                  /\ gi_recreated' = gi_recreated + 1
                  /\ ce_pc' = "try"
                  /\ ce_max_retries' = DefaultMaxRetries
                  /\ ce_attempt' = 0
                  /\ ce_backoffs' = <<>>
                  /\ UNCHANGED <<inbox, gi_attempt, gi_backoffs>>
            [] o \in {"not_ok", "raise"} ->
                  /\ gi_attempt' = gi_attempt + 1
                  /\ gi_backoffs' = IF gi_attempt < gi_max_retries - 1
                                    THEN Append(gi_backoffs, Pow2(gi_attempt))
                                    ELSE gi_backoffs
                  /\ UNCHANGED <<inbox, gi_pc, gi_recreated, ce_pc,
                                 ce_max_retries, ce_attempt, ce_backoffs>>
    /\ UNCHANGED <<session_id, tm_email, gi_max_retries, wm_pc, subject_keyword,
                   timeout, check_interval, elapsed, wm_polls, wm_failed_polls,
                   wm_result>>
    /\ MailFrame

\* Mutant of get_inbox_recreated: a lost session ends get_inbox at once.
get_inbox_recreated_give_up ==
    /\ gi_pc = "recreate"
    /\ ce_pc \in {"returned", "raised"}
    /\ gi_pc' = "raised"
    /\ ce_pc' = "idle"
    /\ UNCHANGED <<session_id, tm_email, inbox, ce_max_retries, ce_attempt,
                   ce_backoffs, gi_max_retries, gi_attempt, gi_backoffs,
                   gi_recreated, wm_pc,
                   subject_keyword, timeout, check_interval, elapsed, wm_polls,
                   wm_failed_polls, wm_result>>
    /\ MailFrame

\* create_email() has come back into get_inbox.  If it returned: continue,
\* the next turn of the loop without a backoff.  If it raised, the exception
\* is caught by get_inbox's own except clause: log, backoff unless it was
\* the last turn, next turn.
get_inbox_recreated ==
    /\ gi_pc = "recreate"
    /\ ce_pc \in {"returned", "raised"}
    /\ gi_attempt' = gi_attempt + 1
    /\ gi_backoffs' = IF ce_pc = "raised" /\ gi_attempt < gi_max_retries - 1
                      THEN Append(gi_backoffs, Pow2(gi_attempt))
                      ELSE gi_backoffs
    /\ gi_pc' = "try"
    /\ ce_pc' = "idle"
    /\ UNCHANGED <<session_id, tm_email, inbox, ce_max_retries, ce_attempt,
                   ce_backoffs, gi_max_retries, gi_recreated, wm_pc,
                   subject_keyword, timeout, check_interval, elapsed, wm_polls,
                   wm_failed_polls, wm_result>>
    /\ MailFrame

\* The for loop of get_inbox is exhausted: raise Exception.
get_inbox_raise ==
    /\ gi_pc = "try"
    /\ gi_attempt >= gi_max_retries
    /\ gi_pc' = "raised"
    /\ UNCHANGED <<session_id, tm_email, inbox, ce_pc, ce_max_retries,
                   ce_attempt, ce_backoffs, gi_max_retries, gi_attempt,
                   gi_backoffs, gi_recreated, wm_pc, subject_keyword, timeout,
                   check_interval, elapsed, wm_polls, wm_failed_polls, wm_result>>
    /\ MailFrame

\* wait_for_message: if not self.session_id: raise; elapsed = 0.
wait_for_message_call ==
    /\ wm_pc = "call"
    /\ wm_pc' = IF session_id = 0 THEN "raised" ELSE "loop"
    /\ UNCHANGED <<session_id, tm_email, inbox, ce_pc, ce_max_retries,
                   ce_attempt, ce_backoffs, gi_pc, gi_max_retries, gi_attempt,
                   gi_backoffs, gi_recreated, subject_keyword, timeout,
                   check_interval, elapsed, wm_polls, wm_failed_polls, wm_result>>
    /\ MailFrame

\* while elapsed < timeout: messages = self.get_inbox() ...; else return None.
wait_for_message_loop ==
    /\ wm_pc = "loop"
    /\ IF elapsed < timeout
       THEN /\ wm_pc' = "polling"
            /\ wm_polls' = wm_polls + 1
            /\ gi_pc' = "call"
            /\ gi_max_retries' = DefaultMaxRetries
            /\ gi_attempt' = 0
            /\ gi_backoffs' = <<>>
            /\ gi_recreated' = 0
       ELSE /\ wm_pc' = "returned"
            /\ UNCHANGED <<wm_polls, gi_pc, gi_max_retries, gi_attempt,
                           gi_backoffs, gi_recreated>>
    /\ UNCHANGED <<session_id, tm_email, inbox, ce_pc, ce_max_retries,
                   ce_attempt, ce_backoffs, subject_keyword, timeout,
                   check_interval, elapsed, wm_failed_polls, wm_result>>
    /\ MailFrame

\* Mutant of wait_for_message_polled: a get_inbox that raised ends the wait.
wait_for_message_polled_give_up ==
    /\ wm_pc = "polling"
    /\ gi_pc \in {"returned", "raised"}
    /\ gi_pc' = "idle"
    /\ IF gi_pc = "returned" /\ \E k \in 1..Len(inbox) : Matches(inbox[k])
       THEN /\ wm_result' = FirstMatch(inbox)
            /\ wm_pc' = "returned"
            /\ UNCHANGED <<elapsed, wm_failed_polls>>
       ELSE IF gi_pc = "raised"
            THEN /\ wm_pc' = "returned"
                 /\ wm_failed_polls' = wm_failed_polls + 1
                 /\ UNCHANGED <<elapsed, wm_result>>
            ELSE /\ elapsed' = elapsed + check_interval
                 /\ wm_pc' = "loop"
                 /\ UNCHANGED <<wm_result, wm_failed_polls>>
    /\ UNCHANGED <<session_id, tm_email, inbox, ce_pc, ce_max_retries,
                   ce_attempt, ce_backoffs, gi_max_retries, gi_attempt,
                   gi_backoffs, gi_recreated, subject_keyword, timeout,
                   check_interval, wm_polls>>
    /\ MailFrame

\* get_inbox() has come back into wait_for_message: the first message whose
\* subject matches is returned; without one, or when get_inbox raised (the
\* exception is swallowed), the method sleeps check_interval and adds it to
\* elapsed.
wait_for_message_polled ==
    /\ wm_pc = "polling"
    /\ gi_pc \in {"returned", "raised"}
    /\ gi_pc' = "idle"
    /\ IF gi_pc = "returned" /\ \E k \in 1..Len(inbox) : Matches(inbox[k])
       THEN /\ wm_result' = FirstMatch(inbox)
            /\ wm_pc' = "returned"
            /\ UNCHANGED <<elapsed, wm_failed_polls>>
       ELSE /\ elapsed' = elapsed + check_interval
            /\ wm_pc' = "loop"
            /\ wm_failed_polls' = IF gi_pc = "raised"
                                  THEN wm_failed_polls + 1 ELSE wm_failed_polls
            /\ UNCHANGED wm_result
    /\ UNCHANGED <<session_id, tm_email, inbox, ce_pc, ce_max_retries,
                   ce_attempt, ce_backoffs, gi_max_retries, gi_attempt,
                   gi_backoffs, gi_recreated, subject_keyword, timeout,
                   check_interval, wm_polls>>
    /\ MailFrame

NextTempMail ==
    \/ create_email_attempt
    \/ create_email_raise
    \/ get_inbox_call
    \/ get_inbox_attempt
    \/ get_inbox_recreated
    \/ get_inbox_raise
    \/ wait_for_message_call
    \/ wait_for_message_loop
    \/ wait_for_message_polled

SpecTempMail == InitTempMail /\ [][NextTempMail]_vars


\* The smaller of two numbers.
Min(a, b) == IF a <= b THEN a ELSE b

C23_SessionNotFoundRecreates ==
    /\ [](/\ gi_attempt <= gi_max_retries
          /\ gi_recreated <= gi_attempt + (IF gi_pc = "recreate" THEN 1 ELSE 0)
          /\ gi_pc = "recreate" => (ce_pc # "idle" /\ gi_attempt < gi_max_retries)
          /\ (gi_pc = "raised" /\ gi_attempt < gi_max_retries) =>
                (session_id = 0 /\ gi_attempt = 0 /\ gi_recreated = 0))
    /\ [][/\ gi_pc = "recreate" => gi_pc' \in {"recreate", "try"}
          /\ (gi_pc = "recreate" /\ gi_pc' = "try") => gi_attempt' = gi_attempt + 1
          /\ (gi_pc = "try" /\ gi_pc' = "raised") => gi_attempt = gi_max_retries]_vars

\* The session was lost once, a new address was created, and the next poll
\* returned the inbox.
C23_Witness ==
    /\ tm_entry = "get_inbox"
    /\ gi_max_retries = DefaultMaxRetries
    /\ gi_recreated = 1
    /\ gi_attempt = 1
    /\ gi_pc = "returned"
    /\ session_id = 2
    /\ gi_backoffs = <<>>


\* ceil(a / b) for b >= 1.
Ceil(a, b) == (a + b - 1) \div b

\* C24: wait_for_message polls while elapsed < timeout and adds
\* check_interval to elapsed after every poll that brought no match, so it
\* makes at most ceil(timeout / check_interval) polls; a poll whose inbox
\* holds a message with a string subject that contains the keyword, case
\* ignored, ends the wait at once with the first such message; None is
\* returned only when elapsed has reached the timeout; a poll that raised
\* counts as a poll without a match and does not end the wait.
C24_WaitForMessage ==
    /\ [](wm_pc \in {"loop", "polling", "returned"} =>
            /\ wm_polls <= Ceil(timeout, check_interval)
            /\ wm_failed_polls <= wm_polls
            /\ wm_pc = "loop" => elapsed = wm_polls * check_interval
            /\ wm_pc = "polling" =>
                  (elapsed = (wm_polls - 1) * check_interval /\ elapsed < timeout)
            /\ (wm_pc = "returned" /\ wm_result = NoMessage) =>
                  /\ elapsed >= timeout
                  /\ wm_polls = Ceil(timeout, check_interval)
            /\ (wm_pc = "returned" /\ wm_result # NoMessage) =>
                  /\ Matches(wm_result)
                  /\ wm_result = FirstMatch(inbox)
                  /\ elapsed = (wm_polls - 1) * check_interval
                  /\ elapsed < timeout)
    /\ [][/\ (wm_pc = "polling" /\ gi_pc = "raised") =>
                (wm_pc' = "loop" /\ elapsed' = elapsed + check_interval)
          /\ (wm_pc = "polling" /\ gi_pc = "returned"
                /\ \E k \in 1..Len(inbox) : Matches(inbox[k])) =>
                (wm_pc' = "returned" /\ wm_result' # NoMessage)
          /\ (wm_pc = "loop" /\ wm_pc' = "returned") =>
                (elapsed >= timeout /\ wm_result' = NoMessage)]_vars

\* After a poll that raised, a later poll saw a message with the subject in
\* upper case while the keyword is in lower case, behind a message that
\* does not match, and the wait ended with it.
C24_Witness ==
    /\ wm_pc = "returned"
    /\ subject_keyword = <<"v">>
    /\ wm_result # NoMessage
    /\ wm_result.subject = <<"V">>
    /\ wm_failed_polls >= 1
    /\ wm_polls >= 2
    /\ Len(inbox) = 2
    /\ ~Matches(inbox[1])


\* ======================================================================
\* Part 8.  Link extraction: TempMail.extract_links and the link selection
\* of EmailVerifier.verify_with_temp_mail.
\*
\* A text is described by what the regular expressions and substring
\* tests of the code can find in it:
\*   direct      a plain URL of the text
\*     "verify"         https://www.pinterest.com/verify?code=C&uid=C
\*     "verify_extra"   https://www.pinterest.com/verify?utm=x&code=1&uid=1
\*     "autologin"      https://www.pinterest.com/secure/autologin/?next=/verify?code=1&uid=1
\*     "autologin_enc"  https://www.pinterest.com/secure/autologin/?next=%2Fverify%3Fcode%3D1%26uid%3D1
\*   target      a redirect URL https://post.pinterest.com/f/a?target=<encoded>
\*     "verify"         decoded: .../secure/autologin/?next=/verify?code=2&uid=2
\*     "verify_nocode"  decoded: .../secure/autologin/?next=/verify
\*     "other"          decoded: https://www.pinterest.com/pin/1
\*   code_token  a bare code=<32 hex digits> (code 3)
\*   uid_token   a bare uid=<digits> (uid 3)
\* The direct URL comes first in the text, then the redirect, then the
\* tokens.  A URL is described by its path, whether its query is encoded,
\* whether it has further parameters, and its code and uid.
\* ======================================================================

Bodies ==
    { b \in [direct : {"none", "verify", "verify_extra", "autologin", "autologin_enc"},
             dcode : {0, 1, 2},
             target : {"none", "verify", "verify_nocode", "other"},
             code_token : BOOLEAN, uid_token : BOOLEAN] :
        b.dcode = (CASE b.direct = "none" -> 0
                     [] b.direct = "verify" -> b.dcode
                     [] OTHER -> 1)
        /\ (b.direct = "verify" => b.dcode # 0) }

LinkMessages ==
    [from_pinterest : BOOLEAN, snippet : Bodies \cup {NoBody},
     body_text : Bodies \cup {NoBody}]

\* f"https://www.pinterest.com/verify?code={code}&uid={uid}"
Constructed(code, uid) ==
    [path |-> "verify", enc |-> FALSE, extra |-> FALSE, code |-> code, uid |-> uid]

\* The plain URL of the text.
DirectUrl(b) ==
    CASE b.direct = "verify" -> Constructed(b.dcode, b.dcode)
      [] b.direct = "verify_extra" ->
            [path |-> "verify", enc |-> FALSE, extra |-> TRUE, code |-> 1, uid |-> 1]
      [] b.direct = "autologin" ->
            [path |-> "autologin", enc |-> FALSE, extra |-> FALSE, code |-> 1, uid |-> 1]
      [] b.direct = "autologin_enc" ->
            [path |-> "autologin", enc |-> TRUE, extra |-> FALSE, code |-> 1, uid |-> 1]
      [] OTHER -> NoLink

\* The redirect URL that carries the target parameter.
Carrier(b) ==
    [path |-> "carrier", enc |-> TRUE, extra |-> (b.target = "verify"),
     code |-> 0, uid |-> 0]

\* urllib.parse.unquote of the target parameter.
unquote_target(b) ==
    CASE b.target = "verify" ->
            [path |-> "autologin", enc |-> FALSE, extra |-> FALSE, code |-> 2, uid |-> 2]
      [] b.target = "verify_nocode" ->
            [path |-> "autologin", enc |-> FALSE, extra |-> FALSE, code |-> 0, uid |-> 0]
      [] b.target = "other" ->
            [path |-> "pin", enc |-> FALSE, extra |-> FALSE, code |-> 0, uid |-> 0]
      [] OTHER -> NoLink

\* 'verify' in body.lower()
body_has_verify(b) ==
    b.direct \notin {"none", "absent"} \/ b.target \in {"verify", "verify_nocode"}

\* re.findall(r'https?://[^\s<>"\']+', body)
AllUrls(b) ==
    (IF b.direct \in {"none", "absent"} THEN <<>> ELSE <<DirectUrl(b)>>)
    \o (IF b.target = "none" THEN <<>> ELSE <<Carrier(b)>>)

\* TempMail.extract_links(message), for a message that is a dict.
extract_links(m) ==
    IF m.snippet = NoBody
    THEN <<>>
    ELSE IF m.from_pinterest /\ body_has_verify(m.snippet)
         THEN IF /\ m.snippet.target \in {"verify", "verify_nocode"}
                 /\ unquote_target(m.snippet).code # 0
                 /\ unquote_target(m.snippet).uid # 0
              THEN <<Constructed(unquote_target(m.snippet).code,
                                 unquote_target(m.snippet).uid)>>
              ELSE IF m.snippet.direct = "autologin"
                   THEN <<DirectUrl(m.snippet)>>
                   ELSE AllUrls(m.snippet)
         ELSE AllUrls(m.snippet)

\* 'pinterest.com' in url and '/verify' in url
is_verify_url(u) ==
    \/ u.path = "verify"
    \/ u.path = "autologin" /\ ~u.enc

\* 'pinterest.com' in url and '/autologin/' in url and 'next=' in url and
\* 'verify' in url
is_autologin_url(u) == u.path = "autologin"

\* The first element of a list that passes a test, or NoLink.
RECURSIVE FirstVerify(_)
FirstVerify(urls) ==
    IF urls = <<>> THEN NoLink
    ELSE IF is_verify_url(Head(urls)) THEN Head(urls) ELSE FirstVerify(Tail(urls))

RECURSIVE FirstAutologin(_)
FirstAutologin(urls) ==
    IF urls = <<>> THEN NoLink
    ELSE IF is_autologin_url(Head(urls)) THEN Head(urls)
         ELSE FirstAutologin(Tail(urls))

\* re.findall(r'code=([a-f0-9]{32})', message['body_text'])[0], or 0
first_code(b) ==
    IF b.direct \in {"verify", "verify_extra", "autologin"} THEN b.dcode
    ELSE IF b.code_token THEN 3 ELSE 0

\* re.search(r'uid=(\d+)', message['body_text']), or 0
first_uid(b) ==
    IF b.direct \in {"verify", "verify_extra", "autologin"} THEN b.dcode
    ELSE IF b.uid_token THEN 3 ELSE 0

InitLinks ==
    /\ mode = "automation"
    /\ num_accounts = 0
    /\ max_retries = 0
    /\ min_delay = 0
    /\ max_delay = 0
    /\ outputFile = <<>>
    /\ NothingStarted
    /\ NoProxies
    /\ NoCaptcha
    /\ AccountManager_init(0, 0)
    /\ main_pc = "none"
    /\ NoMail
    /\ NoImap
    /\ NoVerify
    /\ NoPages
    /\ NoCreate
    /\ le_entry \in {"extract_links", "verify_with_temp_mail"}
    /\ le_pc = "start"
    /\ message \in LinkMessages
    /\ links = <<>>
    /\ verification_link = NoLink

LinkFrame ==
    UNCHANGED <<cfgVars, loopVars, creatorVars, envVars, histVars, managerVars,
                fileVars, proxyVars, captchaVars, mailVars, imapVars, verifyVars, tailVars,
                le_entry,
                message>>

\* A direct call of extract_links(message).
extract_links_call ==
    /\ le_entry = "extract_links"
    /\ le_pc = "start"
    /\ links' = extract_links(message)
    /\ le_pc' = "returned"
    /\ UNCHANGED verification_link
    /\ LinkFrame

\* verify_with_temp_mail, from the message it received: without a
\* 'body_text' key nothing is extracted and there is no link.
verify_extract ==
    /\ le_entry = "verify_with_temp_mail"
    /\ le_pc = "start"
    /\ IF message.body_text = NoBody
       THEN /\ le_pc' = "no_link"
            /\ UNCHANGED links
       ELSE /\ links' = extract_links(message)
            /\ le_pc' = "direct"
    /\ UNCHANGED verification_link
    /\ LinkFrame

\* The first URL of the list with the domain and '/verify'; failing that,
\* the first autologin URL with next= and verify.
select_direct ==
    /\ le_pc = "direct"
    /\ verification_link' =
          (IF FirstVerify(links) # NoLink THEN FirstVerify(links)
           ELSE FirstAutologin(links))
    /\ le_pc' = IF verification_link' # NoLink THEN "open" ELSE "target"
    /\ UNCHANGED links
    /\ LinkFrame

\* if not verification_link: the decoded target of body_text, when it has
\* autologin, next= and verify.
select_target ==
    /\ le_pc = "target"
    /\ verification_link' =
          (IF message.body_text.target \in {"verify", "verify_nocode"}
           THEN unquote_target(message.body_text) ELSE NoLink)
    /\ le_pc' = IF verification_link' # NoLink THEN "open" ELSE "tokens"
    /\ UNCHANGED links
    /\ LinkFrame

select_tokens_none(b) == NoLink

\* if not verification_link: the URL built from the first code and the uid
\* of body_text.
select_tokens_link(b) ==
    IF first_code(b) # 0 /\ first_uid(b) # 0
    THEN Constructed(first_code(b), first_uid(b)) ELSE NoLink

select_tokens ==
    /\ le_pc = "tokens"
    /\ verification_link' = select_tokens_link(message.body_text)
    /\ le_pc' = IF verification_link' # NoLink THEN "open" ELSE "no_link"
    /\ UNCHANGED links
    /\ LinkFrame

NextLinks ==
    \/ extract_links_call
    \/ verify_extract
    \/ select_direct
    \/ select_target
    \/ select_tokens

SpecLinks == InitLinks /\ [][NextLinks]_vars


\* A text that has a bare code token and a bare uid token, and no URL.
OnlyTokens(b) ==
    /\ b # NoBody
    /\ b.direct = "none"
    /\ b.target = "none"
    /\ b.code_token
    /\ b.uid_token

\* C26: for a body that holds both a direct verification URL and an encoded
\* target redirect, extract_links returns the direct URL.  The code tries
\* the target parameter first: for a Pinterest sender it returns the URL
\* it builds from the code and uid of the decoded target.
C26_DirectUrlReturned ==
    (/\ le_entry = "extract_links"
     /\ le_pc = "returned"
     /\ message.snippet.direct \in {"verify", "verify_extra"}
     /\ message.snippet.target = "verify")
    => (links # <<>> /\ links[1] = DirectUrl(message.snippet))

\* C27 as stated: for a body with only a code token and a uid token,
\* extract_links returns the hand-constructed URL.
C27_ExtractLinksBuildsUrl ==
    (/\ le_entry = "extract_links"
     /\ le_pc = "returned"
     /\ OnlyTokens(message.snippet))
    => links = <<Constructed(3, 3)>>

\* C27, amended: for a message whose text has only a code token and a uid
\* token and no URL, extract_links returns the empty list, and it is
\* verify_with_temp_mail that builds the URL from the code and the uid of
\* body_text and uses it as the verification link.
C27_TokensOnly ==
    /\ (/\ le_entry = "extract_links"
        /\ le_pc = "returned"
        /\ OnlyTokens(message.snippet))
       => links = <<>>
    /\ (/\ le_entry = "verify_with_temp_mail"
        /\ le_pc \in {"open", "no_link"}
        /\ OnlyTokens(message.body_text)
        /\ (message.snippet = NoBody \/ OnlyTokens(message.snippet)))
       => (/\ links = <<>>
           /\ le_pc = "open"
           /\ verification_link = Constructed(3, 3))

C27_Witness ==
    /\ le_entry = "verify_with_temp_mail"
    /\ le_pc = "open"
    /\ OnlyTokens(message.body_text)
    /\ OnlyTokens(message.snippet)
    /\ links = <<>>
    /\ verification_link = Constructed(3, 3)

\* C28: the rules are applied in the fixed order (a) direct verification
\* URL, (b) decoded redirect parameter, (c) URL built from the code and uid
\* tokens, and the link used is the one of the first rule that matches.
\* Stated for a message whose snippet and body_text are the same text; for
\* rule (b) either the decoded target or the URL built from its code and
\* uid is accepted.
\* The code lets extract_links try the target parameter before the direct
\* URL, so a body with both yields the URL built from the target.
C28_FixedRuleOrder ==
    (/\ le_entry = "verify_with_temp_mail"
     /\ le_pc \in {"open", "no_link"}
     /\ message.body_text # NoBody
     /\ message.snippet = message.body_text
     /\ message.body_text.direct \in {"none", "verify", "verify_extra"})
    => LET b == message.body_text IN
       IF b.direct \in {"verify", "verify_extra"}
       THEN verification_link = DirectUrl(b)
       ELSE IF b.target \in {"verify", "verify_nocode"}
            THEN verification_link \in
                    {unquote_target(b),
                     Constructed(unquote_target(b).code, unquote_target(b).uid)}
            ELSE IF b.code_token /\ b.uid_token
                 THEN verification_link = Constructed(3, 3)
                 ELSE verification_link = NoLink


\* ======================================================================
\* Part 9.  IMAP verification: EmailVerifier.verify_gmail_account,
\* verify_yahoo_account and verify_outlook_account.  The three methods
\* differ in the server name only.
\* ======================================================================

MaxAttempts == 3
MaxImapDelay == 2

ImapHost(entry) ==
    CASE entry = "verify_gmail_account" -> "imap.gmail.com"
      [] entry = "verify_yahoo_account" -> "imap.mail.yahoo.com"
      [] entry = "verify_outlook_account" -> "outlook.office365.com"
      [] OTHER -> "none"

\* email.message_from_bytes(raw_email): inside the three methods the name
\* email is the parameter, the address string, which has no such
\* attribute, so the call raises AttributeError.
email_message_from_bytes == "AttributeError"

InitImap ==
    /\ mode = "automation"
    /\ num_accounts = 0
    /\ max_retries = 0
    /\ min_delay = 0
    /\ max_delay = 0
    /\ outputFile = <<>>
    /\ NothingStarted
    /\ NoProxies
    /\ NoCaptcha
    /\ AccountManager_init(0, 0)
    /\ main_pc = "none"
    /\ NoMail
    /\ NoLinks
    /\ ve_entry \in {"verify_gmail_account", "verify_yahoo_account",
                     "verify_outlook_account"}
    /\ im_pc = "connect"
    /\ im_host = ImapHost(ve_entry)
    /\ im_max_attempts \in 0..MaxAttempts
    /\ im_delay \in 1..MaxImapDelay
    /\ im_attempts = 0
    /\ im_searches = 0
    /\ im_sleeps = <<>>
    /\ im_link = FALSE
    /\ im_seen_link = FALSE
    /\ im_opened = FALSE
    /\ im_result = "none"
    /\ imap_connections = 0
    /\ NoVerify
    /\ NoPages
    /\ NoCreate

ImapFrame ==
    UNCHANGED <<cfgVars, loopVars, creatorVars, envVars, histVars, managerVars,
                fileVars, proxyVars, captchaVars, mailVars, linkVars,
                verifyVars, tailVars, ve_entry, im_host, im_max_attempts, im_delay>>

\* imaplib.IMAP4_SSL(host), mail.login, mail.select('inbox'); an exception
\* of any of them is caught and the method returns False.
imap_connect ==
    /\ im_pc = "connect"
    /\ imap_connections' = imap_connections + 1
    /\ \E reply \in {"ok", "raise"} :
          IF reply = "ok"
          THEN im_pc' = "loop" /\ UNCHANGED im_result
          ELSE im_pc' = "returned" /\ im_result' = "False"
    /\ UNCHANGED <<im_attempts, im_searches, im_sleeps, im_link, im_seen_link,
                   im_opened>>
    /\ ImapFrame

\* while not verification_link and attempts < max_attempts
imap_loop ==
    /\ im_pc = "loop"
    /\ im_pc' = IF ~im_link /\ im_attempts < im_max_attempts
                THEN "search" ELSE "close"
    /\ UNCHANGED <<im_attempts, im_searches, im_sleeps, im_link, im_seen_link,
                   im_opened, im_result, imap_connections>>
    /\ ImapFrame

\* mail.search and, for a hit, mail.fetch of the latest message and the
\* parsing of it.
imap_search ==
    /\ im_pc = "search"
    /\ im_searches' = im_searches + 1
    /\ \E reply \in {"no_message", "fetch_failed", "fetched", "raise"},
          has_link \in BOOLEAN :
          CASE reply \in {"no_message", "fetch_failed"} ->
                  /\ has_link = FALSE
                  /\ im_pc' = "sleep"
                  /\ UNCHANGED <<im_link, im_seen_link, im_result>>
            [] reply = "fetched" ->
                  /\ im_seen_link' = has_link
                  /\ IF email_message_from_bytes = "AttributeError"
                     THEN /\ im_pc' = "returned"
                          /\ im_result' = "False"
                          /\ UNCHANGED im_link
                     ELSE /\ im_link' = has_link
                          /\ im_pc' = IF has_link THEN "loop" ELSE "sleep"
                          /\ UNCHANGED im_result
            [] reply = "raise" ->
                  /\ has_link = FALSE
                  /\ im_pc' = "returned"
                  /\ im_result' = "False"
                  /\ UNCHANGED <<im_link, im_seen_link>>
    /\ UNCHANGED <<im_attempts, im_sleeps, im_opened, imap_connections>>
    /\ ImapFrame

\* if not verification_link: time.sleep(delay); attempts += 1
imap_sleep ==
    /\ im_pc = "sleep"
    /\ im_sleeps' = Append(im_sleeps, im_delay)
    /\ im_attempts' = im_attempts + 1
    /\ im_pc' = "loop"
    /\ UNCHANGED <<im_searches, im_link, im_seen_link, im_opened, im_result,
                   imap_connections>>
    /\ ImapFrame

\* mail.close(), mail.logout(); without a link the method returns False,
\* with one it returns what open_verification_link returns.
imap_close ==
    /\ im_pc = "close"
    /\ \E reply \in {"ok", "raise"}, opened \in {"True", "False"} :
          IF reply = "raise"
          THEN /\ opened = "False"
               /\ im_result' = "False"
               /\ UNCHANGED im_opened
          ELSE IF ~im_link
               THEN /\ opened = "False"
                    /\ im_result' = "False"
                    /\ UNCHANGED im_opened
               ELSE /\ im_opened' = TRUE
                    /\ im_result' = opened
    /\ im_pc' = "returned"
    /\ UNCHANGED <<im_attempts, im_searches, im_sleeps, im_link, im_seen_link,
                   imap_connections>>
    /\ ImapFrame

NextImap ==
    \/ imap_connect
    \/ imap_loop
    \/ imap_search
    \/ imap_sleep
    \/ imap_close

SpecImap == InitImap /\ [][NextImap]_vars

\* C25: an IMAP verification searches the mailbox at most max_attempts
\* times with the fixed delay between attempts, stops at the first attempt
\* that finds a verification link, and fails when no attempt within the
\* budget finds one.  Here: when an attempt fetched a message that holds a
\* verification link, the method stops with that link and opens it.  The
\* code never gets a link out of a fetched message: parsing it raises, and
\* the method returns False.
C25_StopsAtFirstLink ==
    (im_pc = "returned" /\ im_seen_link) => im_opened


\* C29: no error ends the whole batch except a failure while the first
\* browser session is configured; an error of profile generation, session
\* construction, the signup flow or the delay between accounts is confined
\* to its account attempt.  The code draws the delay with random.randint
\* outside every try block, so an empty delay range ends the run after the
\* first account.
C29_OnlySetupAborts ==
    pc = "aborted" => abortAt = "setup"


\* ======================================================================
\* Part 10.  EmailVerifier.verify_email and the loop of
\* PinterestAutomation._create_accounts around it.  create_account is one
\* step here: it returns an account with an address of some domain,
\* returns a failure, or raises.
\* ======================================================================

DefaultMaxAttempts == 5
DefaultDelay == 60

EmailDomains == RealDomains \cup {"ymail.com", "temp-mail.io"}

\* verify_email: the provider chosen from the domain when no
\* email_provider is given.
provider_of(domain) ==
    CASE domain = "gmail.com" -> "gmail"
      [] domain \in {"yahoo.com", "ymail.com"} -> "yahoo"
      [] domain \in {"outlook.com", "hotmail.com", "live.com"} -> "outlook"
      [] OTHER -> "temp_mail"

verify_method(provider) ==
    CASE provider = "gmail" -> "verify_gmail_account"
      [] provider = "yahoo" -> "verify_yahoo_account"
      [] provider = "outlook" -> "verify_outlook_account"
      [] OTHER -> "none"

InitVerify ==
    /\ mode = "automation"
    /\ num_accounts \in 0..MaxAccounts
    /\ max_retries \in 0..MaxRetries
    /\ min_delay \in 0..MaxDelay
    /\ max_delay \in 0..MaxDelay
    /\ outputFile = <<>>
    /\ NothingStarted
    /\ NoProxies
    /\ NoCaptcha
    /\ AccountManager_init(0, 0)
    /\ main_pc = "none"
    /\ NoMail
    /\ NoLinks
    /\ NoImap
    /\ NoPages
    /\ NoCreate
    /\ email_verification \in BOOLEAN
    /\ email_passwords \in
          {[d \in RealDomains |-> IF d \in listed THEN pw ELSE "missing"] :
              listed \in SUBSET RealDomains, pw \in {"empty", "set"}}
    /\ ve_pc = "idle"
    /\ ve_domain = "none"
    /\ ve_password = "none"
    /\ ve_result = "none"
    /\ pa_pc = "for"
    /\ pa_i = 0
    /\ pa_retries = 0
    /\ pa_account_created = FALSE
    /\ pa_accounts = <<>>
    /\ pa_failed = 0
    /\ pa_verified = 0

VerifyFrame ==
    UNCHANGED <<cfgVars, loopVars, creatorVars, envVars, histVars, managerVars,
                fileVars, proxyVars, captchaVars, mailVars, linkVars,
                tailVars, email_verification, email_passwords>>

ImapIdle ==
    UNCHANGED <<ve_entry, im_pc, im_host, im_max_attempts, im_delay,
                im_attempts, im_searches, im_sleeps, im_link, im_seen_link,
                im_opened, im_result, imap_connections>>

\* for i in range(num_accounts): account_created = False; retries = 0;
\* after the last index the results are saved.
pa_for ==
    /\ pa_pc = "for"
    /\ IF pa_i < num_accounts
       THEN /\ pa_pc' = "while"
            /\ pa_account_created' = FALSE
            /\ pa_retries' = 0
       ELSE /\ pa_pc' = "done"
            /\ UNCHANGED <<pa_account_created, pa_retries>>
    /\ UNCHANGED <<ve_pc, ve_domain, ve_password, ve_result, pa_i, pa_accounts,
                   pa_failed, pa_verified>>
    /\ ImapIdle
    /\ VerifyFrame

\* One pass of the while loop up to the verification: create_account
\* returns (True, result), returns a failure, or raises.  For a created
\* account with verification enabled and a password entry for its domain,
\* verify_email(email, password) is called; otherwise the account is
\* recorded unverified.
pa_attempt ==
    /\ pa_pc = "while"
    /\ ~pa_account_created
    /\ pa_retries < max_retries
    /\ \E outcome \in {"created", "failed", "raise"}, domain \in EmailDomains :
          IF outcome = "created"
          THEN IF /\ email_verification
                  /\ domain \in RealDomains
                  /\ email_passwords[domain] # "missing"
               THEN /\ ve_pc' = "call"
                    /\ ve_domain' = domain
                    /\ ve_password' = email_passwords[domain]
                    /\ ve_result' = "none"
                    /\ pa_pc' = "verify"
                    /\ UNCHANGED <<pa_retries, pa_account_created, pa_accounts>>
               ELSE /\ pa_accounts' = Append(pa_accounts,
                          [index |-> pa_i, verified |-> FALSE,
                           cause |-> IF email_verification
                                     THEN "no_password_entry" ELSE "disabled"])
                    /\ pa_account_created' = TRUE
                    /\ UNCHANGED <<ve_pc, ve_domain, ve_password, ve_result,
                                   pa_pc, pa_retries>>
          ELSE /\ domain = "gmail.com"
               /\ pa_retries' = pa_retries + 1
               /\ UNCHANGED <<ve_pc, ve_domain, ve_password, ve_result, pa_pc,
                              pa_account_created, pa_accounts>>
    /\ UNCHANGED <<pa_i, pa_failed, pa_verified>>
    /\ ImapIdle
    /\ VerifyFrame

\* Mutant of verify_email: the password is not tested.
verify_email_no_password_test ==
    /\ ve_pc = "call"
    /\ IF provider_of(ve_domain) \in {"gmail", "yahoo", "outlook"}
       THEN /\ ve_entry' = verify_method(provider_of(ve_domain))
            /\ im_host' = ImapHost(ve_entry')
            /\ im_pc' = "connect"
            /\ im_max_attempts' = DefaultMaxAttempts
            /\ im_delay' = DefaultDelay
            /\ im_attempts' = 0
            /\ im_searches' = 0
            /\ im_sleeps' = <<>>
            /\ im_link' = FALSE
            /\ im_seen_link' = FALSE
            /\ im_opened' = FALSE
            /\ im_result' = "none"
            /\ ve_pc' = "imap"
            /\ UNCHANGED ve_result
       ELSE /\ \E r \in {"True", "False"} : ve_result' = r
            /\ ve_pc' = "returned"
            /\ UNCHANGED <<ve_entry, im_pc, im_host, im_max_attempts, im_delay,
                           im_attempts, im_searches, im_sleeps, im_link,
                           im_seen_link, im_opened, im_result>>
    /\ UNCHANGED <<imap_connections, ve_domain, ve_password, pa_pc, pa_i,
                   pa_retries, pa_account_created, pa_accounts, pa_failed,
                   pa_verified>>
    /\ VerifyFrame

\* verify_email(email, password): the provider is taken from the domain;
\* for gmail, yahoo and outlook a missing password returns False at once,
\* otherwise the provider's IMAP method is called with its default
\* max_attempts and delay; for temp_mail verify_with_temp_mail is called,
\* whose result is taken as it comes.
verify_email ==
    /\ ve_pc = "call"
    /\ IF provider_of(ve_domain) \in {"gmail", "yahoo", "outlook"}
       THEN IF ve_password # "set"
            THEN /\ ve_result' = "False"
                 /\ ve_pc' = "returned"
                 /\ UNCHANGED <<ve_entry, im_pc, im_host, im_max_attempts,
                                im_delay, im_attempts, im_searches, im_sleeps,
                                im_link, im_seen_link, im_opened, im_result>>
            ELSE /\ ve_entry' = verify_method(provider_of(ve_domain))
                 /\ im_host' = ImapHost(ve_entry')
                 /\ im_pc' = "connect"
                 /\ im_max_attempts' = DefaultMaxAttempts
                 /\ im_delay' = DefaultDelay
                 /\ im_attempts' = 0
                 /\ im_searches' = 0
                 /\ im_sleeps' = <<>>
                 /\ im_link' = FALSE
                 /\ im_seen_link' = FALSE
                 /\ im_opened' = FALSE
                 /\ im_result' = "none"
                 /\ ve_pc' = "imap"
                 /\ UNCHANGED ve_result
       ELSE /\ \E r \in {"True", "False"} : ve_result' = r
            /\ ve_pc' = "returned"
            /\ UNCHANGED <<ve_entry, im_pc, im_host, im_max_attempts, im_delay,
                           im_attempts, im_searches, im_sleeps, im_link,
                           im_seen_link, im_opened, im_result>>
    /\ UNCHANGED <<imap_connections, ve_domain, ve_password, pa_pc, pa_i,
                   pa_retries, pa_account_created, pa_accounts, pa_failed,
                   pa_verified>>
    /\ VerifyFrame

\* return self.verify_gmail_account(email, password), and the like.
verify_email_return ==
    /\ ve_pc = "imap"
    /\ im_pc = "returned"
    /\ ve_result' = im_result
    /\ ve_pc' = "returned"
    /\ im_pc' = "idle"
    /\ UNCHANGED <<ve_entry, im_host, im_max_attempts, im_delay, im_attempts,
                   im_searches, im_sleeps, im_link, im_seen_link, im_opened,
                   im_result, imap_connections>>
    /\ UNCHANGED <<ve_domain, ve_password, pa_pc, pa_i, pa_retries,
                   pa_account_created, pa_accounts, pa_failed, pa_verified>>
    /\ VerifyFrame

\* verified = verify_email(...); stats["verified"] += 1 if verified; the
\* account is appended to stats["accounts"]; account_created = True.
pa_record ==
    /\ pa_pc = "verify"
    /\ ve_pc = "returned"
    /\ pa_accounts' = Append(pa_accounts,
          [index |-> pa_i, verified |-> (ve_result = "True"),
           cause |-> IF ve_result = "True" THEN "verified"
                     ELSE IF ve_password # "set" THEN "password_required"
                     ELSE "not_verified"])
    /\ pa_verified' = IF ve_result = "True" THEN pa_verified + 1 ELSE pa_verified
    /\ pa_account_created' = TRUE
    /\ pa_pc' = "while"
    /\ ve_pc' = "idle"
    /\ UNCHANGED <<ve_domain, ve_password, ve_result, pa_i, pa_retries, pa_failed>>
    /\ ImapIdle
    /\ VerifyFrame

\* The while loop is left: if not account_created: stats["failed"] += 1;
\* if i < num_accounts - 1: time.sleep(random.randint(min_delay, max_delay)).
pa_account_done ==
    /\ pa_pc = "while"
    /\ pa_account_created \/ pa_retries >= max_retries
    /\ pa_failed' = IF pa_account_created THEN pa_failed ELSE pa_failed + 1
    /\ IF pa_i < num_accounts - 1 /\ min_delay > max_delay
       THEN /\ pa_pc' = "aborted"
            /\ UNCHANGED pa_i
       ELSE /\ pa_i' = pa_i + 1
            /\ pa_pc' = "for"
    /\ UNCHANGED <<ve_pc, ve_domain, ve_password, ve_result, pa_retries,
                   pa_account_created, pa_accounts, pa_verified>>
    /\ ImapIdle
    /\ VerifyFrame

NextVerify ==
    \/ pa_for
    \/ pa_attempt
    \/ verify_email
    \/ imap_connect
    \/ imap_loop
    \/ imap_search
    \/ imap_sleep
    \/ imap_close
    \/ verify_email_return
    \/ pa_record
    \/ pa_account_done

SpecVerify == InitVerify /\ [][NextVerify]_vars


\* The call of verify_email is for gmail, yahoo or outlook and has no
\* password.
PasswordMissing ==
    /\ provider_of(ve_domain) \in {"gmail", "yahoo", "outlook"}
    /\ ve_password # "set"

\* C30: verify_email for a Gmail, Yahoo or Outlook address without a
\* password returns False without opening an IMAP connection, and only the
\* verification of that account is given up: the account is recorded as
\* created and unverified, the index is not retried, and the loop goes on
\* to the next index (it ends early only for an empty delay range).
C30_MissingPassword ==
    /\ [](/\ (ve_pc = "returned" /\ PasswordMissing) => ve_result = "False"
          /\ \A k \in 1..Len(pa_accounts) :
                pa_accounts[k].cause = "password_required"
                    => ~pa_accounts[k].verified
          /\ pa_pc = "for" => Len(pa_accounts) + pa_failed = pa_i
          /\ pa_pc = "done" =>
                pa_i = num_accounts /\ Len(pa_accounts) + pa_failed = num_accounts
          /\ pa_pc = "aborted" => min_delay > max_delay)
    /\ [][/\ (ve_pc = "call" /\ PasswordMissing) =>
                /\ ve_pc' = "returned"
                /\ ve_result' = "False"
                /\ UNCHANGED imapVars
          /\ (pa_pc = "verify" /\ ve_pc = "returned" /\ PasswordMissing) =>
                /\ pa_pc' = "while"
                /\ pa_account_created'
                /\ pa_i' = pa_i
                /\ pa_retries' = pa_retries
                /\ pa_failed' = pa_failed
                /\ pa_accounts' = Append(pa_accounts,
                      [index |-> pa_i, verified |-> FALSE,
                       cause |-> "password_required"])]_vars

C30_Witness ==
    /\ pa_pc = "done"
    /\ num_accounts >= 2
    /\ Len(pa_accounts) >= 2
    /\ pa_accounts[1].index = 0
    /\ pa_accounts[1].cause = "password_required"
    /\ pa_accounts[2].index = 1
    /\ imap_connections = 0


-----------------------------------------------------------------------------
(***************************************************************************)
(* AccountManager.start() left to itself: every thread that can take a     *)
(* step takes it sooner or later; only the KeyboardInterrupt need not      *)
(* come.                                                                   *)
(***************************************************************************)
FairSpecStart ==
    /\ SpecThreaded
    /\ WF_vars(start_submit)
    /\ WF_vars(creation_pool_shutdown)
    /\ WF_vars(verification_pool_shutdown)
    /\ WF_vars(close_creators)
    /\ WF_vars(close_verifiers)
    /\ WF_vars(stop)
    /\ WF_vars(process_exit)
    /\ \A c \in 0..(MaxCreators - 1) :
          /\ WF_vars(c \in CreatorIds /\ creator_construct(c))
          /\ WF_vars(c \in CreatorIds /\ creator_finish(c))
    /\ \A v \in 0..(MaxVerifiers - 1) :
          WF_vars(v \in VerifierIds /\ verify_account(v))

\* C31: start() terminates without an interrupt: once all creation tasks
\* have finished and the verification queue is drained, the verification
\* workers exit and start() returns.  In the code a worker leaves its loop
\* only when is_running is False, and nothing but the KeyboardInterrupt
\* handler and stop() sets it to False, so start() waits forever in
\* verification_pool.shutdown(wait=True).
C31_StartReturns ==
    (/\ main_pc = "waitVerification"
     /\ \A c \in CreatorIds : creator_thread[c] = "done"
     /\ verification_queue = <<>>)
        ~> (main_pc \in {"returned", "exited"})


\* C32: when a verification worker calls verify_with_temp_mail for an
\* account it took from the queue, its EmailVerifier holds the mailbox
\* session of that account (so a queued account can be saved as verified).
\* In the code the worker's EmailVerifier is a new one whose temp_mail is
\* None, so the call returns False at once and nothing is ever saved.
C32_VerifierHoldsMailbox ==
    [][\A v \in VerifierIds :
          (/\ verifier_thread[v] = "got"
           /\ verifier_thread'[v] = "check"
           /\ verifier_temp_mail'[v] # "unset")
              => verifier_temp_mail'[v] # "none"]_vars


\* C37: every account that was created is in the output file before the
\* next account attempt begins, so that an interrupted run leaves its
\* successes on disk.  BatchAccountCreator and PinterestAutomation write
\* the file once, after the last index.
C37_PersistedBeforeNextAttempt ==
    pc = "create" =>
        \A k \in 1..Len(successful_accounts) :
            \E j \in 1..Len(outputFile) : outputFile[j] = successful_accounts[k]


\* C39: while the verification message is awaited, the address that is
\* polled is the address that was entered in the signup form: no step of
\* wait_for_message or get_inbox changes the address of the TempMail.
\* The code answers "Session not found" by create_email(), which replaces
\* self.email and self.session_id by a new mailbox.
C39_AddressStable ==
    [][(tm_entry \in {"get_inbox", "wait_for_message"} /\ tm_email = 1)
          => tm_email' = 1]_vars


\* ======================================================================
\* Part 11.  The success tests on the page the browser shows:
\* PinterestAccountCreator.check_account_created and
\* EmailVerifier.open_verification_link.  A URL is a sequence of pieces
\* of text; `indicator in current_url` is Contains.
\* ======================================================================

MaxUrlLen == 3

UrlPieces == {"https://www.", "pinterest.com/", "homefeed", "settings",
              "following", "signup/", "example.org/"}

Urls == UNION {[1..n -> UrlPieces] : n \in 1..MaxUrlLen}

\* success_indicators, the same list in both methods.
success_indicators ==
    <<(<<"pinterest.com/", "homefeed">>),
      (<<"pinterest.com/", "settings">>),
      (<<"pinterest.com/", "following">>),
      (<<"pinterest.com/">>)>>

\* for indicator in success_indicators: if indicator in current_url
url_indicates_success(url) ==
    \E k \in 1..Len(success_indicators) : Contains(success_indicators[k], url)

InitPages ==
    /\ mode = "automation"
    /\ num_accounts = 0
    /\ max_retries = 0
    /\ min_delay = 0
    /\ max_delay = 0
    /\ outputFile = <<>>
    /\ NothingStarted
    /\ NoProxies
    /\ NoCaptcha
    /\ AccountManager_init(0, 0)
    /\ main_pc = "none"
    /\ NoMail
    /\ NoLinks
    /\ NoImap
    /\ NoVerify
    /\ NoCreate
    /\ pg_entry \in {"check_account_created", "open_verification_link"}
    /\ pg_pc = IF pg_entry = "check_account_created" THEN "check" ELSE "get"
    /\ current_url \in Urls
    /\ success_element \in
          (IF pg_entry = "check_account_created" THEN {FALSE} ELSE BOOLEAN)
    /\ pg_result = "none"

PageFrame ==
    UNCHANGED <<cfgVars, loopVars, creatorVars, envVars, histVars, managerVars,
                fileVars, proxyVars, captchaVars, mailVars, linkVars, imapVars,
                verifyVars, createVars, pg_entry, success_element>>

\* check_account_created: True when an indicator is in the current URL;
\* False otherwise, and when reading the URL raises.
check_current_url ==
    /\ pg_entry = "check_account_created"
    /\ pg_pc = "check"
    /\ \E reply \in {"url", "raise"} :
          pg_result' = IF reply = "url" /\ url_indicates_success(current_url)
                       THEN "True" ELSE "False"
    /\ pg_pc' = "returned"
    /\ UNCHANGED current_url
    /\ PageFrame

\* open_verification_link: self.driver.get(verification_link); the browser
\* ends on some page, or the call raises and the method returns False.
open_link ==
    /\ pg_entry = "open_verification_link"
    /\ pg_pc = "get"
    /\ \E reply \in {"loaded", "raise"} :
          IF reply = "loaded"
          THEN /\ \E u \in Urls : current_url' = u
               /\ pg_pc' = "check"
               /\ UNCHANGED pg_result
          ELSE /\ pg_pc' = "returned"
               /\ pg_result' = "False"
               /\ UNCHANGED current_url
    /\ PageFrame

\* open_verification_link after the load: True when an indicator is in the
\* current URL, or else when the page shows an element with 'verified',
\* 'confirmed' or 'success'; False otherwise.
check_verification_page ==
    /\ pg_entry = "open_verification_link"
    /\ pg_pc = "check"
    /\ pg_result' = IF url_indicates_success(current_url) \/ success_element
                    THEN "True" ELSE "False"
    /\ pg_pc' = "returned"
    /\ UNCHANGED current_url
    /\ PageFrame

NextPages ==
    \/ check_current_url
    \/ open_link
    \/ check_verification_page

SpecPages == InitPages /\ [][NextPages]_vars

\* The browser is on the home feed, the settings or the following page.
OnPostSignupPage ==
    \/ Contains(<<"pinterest.com/", "homefeed">>, current_url)
    \/ Contains(<<"pinterest.com/", "settings">>, current_url)
    \/ Contains(<<"pinterest.com/", "following">>, current_url)

\* C40: check_account_created returns True only after a redirect to a
\* post-signup page (home feed, settings, following), never on the signup
\* page; open_verification_link returns True only after such a redirect or
\* when a success message is shown.  The fourth indicator of the code,
\* "pinterest.com/", is part of every URL of the site, the signup page
\* included.
C40_SuccessOnlyAfterRedirect ==
    (pg_pc = "returned" /\ pg_result = "True") =>
        (OnPostSignupPage \/ success_element)


\* ======================================================================
\* Part 12.  One account, attempt by attempt: the retry loop of an
\* orchestrator (BatchAccountCreator.create_accounts,
\* PinterestAutomation._create_accounts, or the single call of
\* AccountManager.create_account) around
\* PinterestAccountCreator.create_account, with the browsers, the mailbox
\* sessions, the sleeps and the forms of each attempt.
\* ======================================================================

\* The passes the orchestrator may make for the account.
OrchestratorTries == IF mode = "manager" THEN 1 ELSE max_retries

InitCreate ==
    /\ mode \in {"batch", "automation", "manager"}
    /\ num_accounts = 1
    /\ max_retries \in (IF mode = "manager" THEN {1} ELSE 0..MaxRetries)
    /\ min_delay = 0
    /\ max_delay = 0
    /\ outputFile = <<>>
    /\ NothingStarted
    /\ NoProxies
    /\ NoCaptcha
    /\ AccountManager_init(0, 0)
    /\ main_pc = "none"
    /\ NoMail
    /\ NoLinks
    /\ NoImap
    /\ NoPages
    /\ email_verification \in (IF mode = "automation" THEN BOOLEAN ELSE {FALSE})
    /\ email_passwords \in
          (IF mode = "automation"
           THEN {[d \in RealDomains |-> IF d \in listed THEN "set" ELSE "missing"] :
                    listed \in {{}, {"gmail.com"}, RealDomains}}
           ELSE {[d \in RealDomains |-> "missing"]})
    /\ ve_pc = "idle"
    /\ ve_domain = "none"
    /\ ve_password = "none"
    /\ ve_result = "none"
    /\ pa_pc = "idle"
    /\ pa_i = 0
    /\ pa_retries = 0
    /\ pa_account_created = FALSE
    /\ pa_accounts = <<>>
    /\ pa_failed = 0
    /\ pa_verified = 0
    \* the two sequential orchestrators leave use_temp_mail at its default
    /\ use_temp_mail \in (IF mode = "manager" THEN BOOLEAN ELSE {TRUE})
    /\ oc_pc = "while"
    /\ oc_retries = 0
    /\ oc_account_created = FALSE
    /\ ca_driver = "none"
    /\ browser_sessions = 0
    /\ last_browser = "none"
    /\ ca_pc = "idle"
    /\ ca_attempt = 0
    /\ ca_ret = "pending"
    /\ ca_backoffs = <<>>
    /\ ca_steps = <<>>
    /\ ca_email_verifier = FALSE
    /\ ca_session = "none"
    /\ sessions_created = 0
    /\ sessions_killed = 0
    /\ form_fills = 0
    /\ verify_calls = 0

CreateFrame ==
    UNCHANGED <<cfgVars, loopVars, creatorVars, envVars, histVars, managerVars,
                fileVars, proxyVars, captchaVars, mailVars, linkVars, imapVars,
                verifyVars, pageVars, use_temp_mail>>

\* The first step of an attempt of create_account.
FirstStep == IF use_temp_mail THEN "mail" ELSE "form"

\* while not account_created and retries < max_retries:
\*     creator = PinterestAccountCreator(...)
\*     try: success, result = creator.create_account(user_info=user_info)
\* The constructor runs setup_driver, which starts a browser or, when every
\* launch fails, leaves self.driver at None.
oc_construct ==
    /\ oc_pc = "while"
    /\ ~oc_account_created
    /\ oc_retries < OrchestratorTries
    /\ \E launched \in BOOLEAN :
          /\ ca_driver' = IF launched THEN "open" ELSE "none"
          /\ browser_sessions' =
                IF launched THEN browser_sessions + 1 ELSE browser_sessions
    /\ ca_pc' = FirstStep
    /\ ca_attempt' = 0
    /\ ca_ret' = "pending"
    /\ ca_backoffs' = <<>>
    /\ ca_steps' = <<>>
    /\ ca_email_verifier' = FALSE
    /\ ca_session' = "none"
    /\ oc_pc' = "create"
    /\ UNCHANGED <<oc_retries, oc_account_created, last_browser,
                   sessions_created, sessions_killed, form_fills, verify_calls>>
    /\ CreateFrame

\* How an attempt of create_account ends.  how is "continue" (a step
\* returned a falsy value), "raise" (except Exception: sleep 2 ** attempt
\* and continue, or on the last attempt return (False, error_msg)) or
\* "return" (return True, user_info).  The finally clause closes the email
\* verifier on the last attempt only, and EmailVerifier.close kills the
\* session of its TempMail; the kill-session request is taken to succeed.
\* After a `continue` on the last attempt the loop is exhausted and the
\* function returns None.  ev and ses are self.email_verifier and the
\* session of its TempMail as the attempt ends.
AttemptEnd(how, ev, ses) ==
    LET last == ca_attempt = CreateMaxRetries - 1
        closes == last /\ ev
    IN  /\ ca_email_verifier' = IF closes THEN FALSE ELSE ev
        /\ ca_session' = IF closes THEN "none" ELSE ses
        /\ sessions_killed' = IF closes /\ ses = "open"
                              THEN sessions_killed + 1 ELSE sessions_killed
        /\ ca_backoffs' = IF how = "raise" /\ ~last
                          THEN Append(ca_backoffs, Pow2(ca_attempt))
                          ELSE ca_backoffs
        /\ IF how # "return" /\ ~last
           THEN /\ ca_attempt' = ca_attempt + 1
                /\ ca_pc' = FirstStep
                /\ ca_steps' = <<>>
                /\ UNCHANGED <<ca_ret, oc_pc>>
           ELSE /\ ca_ret' = CASE how = "return" -> "True"
                               [] how = "raise" -> "False"
                               [] OTHER -> "None"
                /\ ca_pc' = "returned"
                /\ oc_pc' = "handle"
                /\ UNCHANGED <<ca_attempt, ca_steps>>

\* Mutant of ca_generate_temp_mail: the address is generated in the first
\* attempt only.
ca_generate_temp_mail_first_attempt_only ==
    /\ oc_pc = "create"
    /\ ca_pc = "mail"
    /\ IF ca_attempt > 0
       THEN /\ ca_pc' = "form"
            /\ UNCHANGED <<ca_steps, ca_email_verifier, ca_session,
                           sessions_created, ca_attempt, ca_ret, ca_backoffs,
                           oc_pc, sessions_killed>>
       ELSE \E created \in BOOLEAN :
              IF created
              THEN /\ ca_email_verifier' = TRUE
                   /\ ca_session' = "open"
                   /\ sessions_created' = sessions_created + 1
                   /\ ca_steps' = <<"mail">>
                   /\ ca_pc' = "form"
                   /\ UNCHANGED <<ca_attempt, ca_ret, ca_backoffs, oc_pc,
                                  sessions_killed>>
              ELSE /\ AttemptEnd("raise", TRUE, "none")
                   /\ UNCHANGED sessions_created
    /\ UNCHANGED <<oc_retries, oc_account_created, ca_driver, browser_sessions,
                   last_browser, form_fills, verify_calls>>
    /\ CreateFrame

\* if self.use_temp_mail: the EmailVerifier is created if there is none,
\* then email = self.email_verifier.generate_temp_mail(): self.temp_mail
\* becomes a new TempMail, whose create_email opens a session at the
\* service or raises after its retries.  The TempMail of the attempt
\* before is dropped as it is.
ca_generate_temp_mail ==
    /\ oc_pc = "create"
    /\ ca_pc = "mail"
    /\ \E created \in BOOLEAN :
          IF created
          THEN /\ ca_email_verifier' = TRUE
               /\ ca_session' = "open"
               /\ sessions_created' = sessions_created + 1
               /\ ca_steps' = <<"mail">>
               /\ ca_pc' = "form"
               /\ UNCHANGED <<ca_attempt, ca_ret, ca_backoffs, oc_pc,
                              sessions_killed>>
          ELSE /\ AttemptEnd("raise", TRUE, "none")
               /\ UNCHANGED sessions_created
    /\ UNCHANGED <<oc_retries, oc_account_created, ca_driver, browser_sessions,
                   last_browser, form_fills, verify_calls>>
    /\ CreateFrame

\* if not self.fill_signup_form(user_info): continue
\* fill_signup_form catches every exception and returns False; without a
\* running browser self.driver.get raises inside it.
ca_fill_signup_form ==
    /\ oc_pc = "create"
    /\ ca_pc = "form"
    /\ \E filled \in (IF ca_driver = "open" THEN BOOLEAN ELSE {FALSE}) :
          IF filled
          THEN /\ form_fills' = form_fills + 1
               /\ ca_steps' = Append(ca_steps, "form")
               /\ ca_pc' = "steps"
               /\ UNCHANGED <<ca_attempt, ca_ret, ca_backoffs, oc_pc,
                              ca_email_verifier, ca_session, sessions_killed>>
          ELSE /\ AttemptEnd("continue", ca_email_verifier, ca_session)
               /\ UNCHANGED form_fills
    /\ UNCHANGED <<oc_retries, oc_account_created, ca_driver, browser_sessions,
                   last_browser, sessions_created, verify_calls>>
    /\ CreateFrame

\* The steps after the form: the two Next buttons, select_gender,
\* select_interests, check_account_created.  They all succeed and the
\* method returns (True, user_info); or one of them returns a falsy value
\* and the attempt continues; or wait_for_element raises because the
\* browser is gone.
ca_steps_after_form ==
    /\ oc_pc = "create"
    /\ ca_pc = "steps"
    /\ \E o \in {"ok", "fail", "crash"} :
          /\ AttemptEnd(CASE o = "ok" -> "return"
                          [] o = "fail" -> "continue"
                          [] OTHER -> "raise",
                        ca_email_verifier, ca_session)
          /\ ca_driver' = IF o = "crash" THEN "crashed" ELSE ca_driver
    /\ UNCHANGED <<oc_retries, oc_account_created, browser_sessions,
                   last_browser, sessions_created, form_fills, verify_calls>>
    /\ CreateFrame

\* The orchestrator takes the result: (True, result) sets account_created,
\* in PinterestAutomation after verify_email(email, password) when
\* verification is enabled and the domain of the address has a password
\* entry; (False, error) and the TypeError of unpacking None count a retry.
oc_handle_result ==
    /\ oc_pc = "handle"
    /\ IF ca_ret = "True"
       THEN /\ oc_account_created' = TRUE
            /\ \E domain \in EmailDomains :
                  verify_calls' =
                     IF /\ mode = "automation"
                        /\ email_verification
                        /\ domain \in RealDomains
                        /\ email_passwords[domain] # "missing"
                     THEN verify_calls + 1 ELSE verify_calls
            /\ UNCHANGED oc_retries
       ELSE /\ oc_retries' = oc_retries + 1
            /\ UNCHANGED <<oc_account_created, verify_calls>>
    /\ oc_pc' = "close"
    /\ UNCHANGED <<ca_driver, browser_sessions, last_browser, ca_pc,
                   ca_attempt, ca_ret, ca_backoffs, ca_steps, ca_email_verifier,
                   ca_session, sessions_created, sessions_killed, form_fills>>
    /\ CreateFrame

\* finally: creator.close(): self.driver.quit() if there is a driver, and
\* self.email_verifier = None without closing it.
oc_close ==
    /\ oc_pc = "close"
    /\ last_browser' = ca_driver
    /\ ca_driver' = IF ca_driver = "none" THEN "none" ELSE "closed"
    /\ ca_email_verifier' = FALSE
    /\ oc_pc' = "while"
    /\ UNCHANGED <<oc_retries, oc_account_created, browser_sessions, ca_pc,
                   ca_attempt, ca_ret, ca_backoffs, ca_steps, ca_session,
                   sessions_created, sessions_killed, form_fills, verify_calls>>
    /\ CreateFrame

\* The while loop is left.
oc_done ==
    /\ oc_pc = "while"
    /\ oc_account_created \/ oc_retries >= OrchestratorTries
    /\ oc_pc' = "done"
    /\ UNCHANGED <<oc_retries, oc_account_created, ca_driver, browser_sessions,
                   last_browser, ca_pc, ca_attempt, ca_ret, ca_backoffs,
                   ca_steps, ca_email_verifier, ca_session, sessions_created,
                   sessions_killed, form_fills, verify_calls>>
    /\ CreateFrame

NextCreate ==
    \/ oc_construct
    \/ ca_generate_temp_mail
    \/ ca_fill_signup_form
    \/ ca_steps_after_form
    \/ oc_handle_result
    \/ oc_close
    \/ oc_done

SpecCreate == InitCreate /\ [][NextCreate]_vars


\* An attempt of create_account is under way.
InAttempt == oc_pc = "create" /\ ca_pc \in {"mail", "form", "steps"}

\* C33: between any two consecutive attempts inside create_account there is
\* a backoff sleep of 2 ** attempt seconds, whether the earlier attempt
\* ended with a failed step or with an exception: when attempt number n is
\* under way the call has slept n times, 1, 2, 4, ... seconds.
C33_BackoffBetweenAttempts ==
    InAttempt =>
        /\ Len(ca_backoffs) = ca_attempt
        /\ \A k \in 1..Len(ca_backoffs) : ca_backoffs[k] = Pow2(k - 1)

\* C34: for one account index the number of signup forms submitted never
\* exceeds the max_retries configured for the orchestrator.
C34_FormsWithinMaxRetries ==
    mode \in {"batch", "automation"} => form_fills <= max_retries

\* C35: inside one attempt budget the browser session is reused across the
\* retries, and a new browser session is started for a retry only when the
\* session before it had failed unrecoverably (it crashed or never came
\* up).
C35_BrowserReused ==
    [][/\ (oc_pc = "create" /\ ca_attempt' # ca_attempt)
             => browser_sessions' = browser_sessions
       /\ (oc_retries > 0 /\ browser_sessions' # browser_sessions)
             => last_browser \in {"crashed", "none"}]_vars

\* C38: every mailbox session created by TempMail.create_email is ended by
\* a kill-session request: when create_account generates a new address for
\* a retry, when it has returned, and when the creator has been closed, no
\* earlier session is left open.
C38_SessionsKilled ==
    /\ [](oc_pc \in {"handle", "close", "while", "done"}
              => sessions_killed = sessions_created)
    /\ [][sessions_created' # sessions_created
              => sessions_killed = sessions_created]_vars

\* C36: with the disposable mailbox the address is generated before the
\* signup form is filled, in every attempt; and verify_email, the
\* verification at a real mail provider, is called only after
\* create_account has returned success for the account.
C36_MailBeforeForm ==
    /\ [](use_temp_mail =>
             \A k \in 1..Len(ca_steps) :
                 ca_steps[k] = "form" => \E j \in 1..(k - 1) : ca_steps[j] = "mail")
    /\ [][/\ (use_temp_mail /\ form_fills' # form_fills) =>
                 (Len(ca_steps) > 0 /\ ca_steps[1] = "mail")
          /\ verify_calls' # verify_calls =>
                 (oc_pc = "handle" /\ ca_pc = "returned" /\ ca_ret = "True")]_vars

\* A verification at the provider after an account whose form was filled
\* in a retry, with the address generated in that retry.
C36_Witness ==
    /\ use_temp_mail
    /\ verify_calls = 1
    /\ ca_attempt = 1
    /\ ca_steps = <<"mail", "form">>
    /\ ca_ret = "True"
    /\ oc_pc = "close"

=============================================================================
